---- MODULE Spec2Model ----
(***************************************************************************)
(* A model of the constellation matcher of python/constellation_tools.py   *)
(* and of the /constellation/search endpoint of python/app.py.             *)
(*                                                                         *)
(* Arithmetic is exact.  Points lie on the integer grid, the rotation step *)
(* is a multiple of 90 degrees (so that cos and sin are 0, 1 or -1) and a  *)
(* scale is the rational num/den that np.linspace yields for integer range *)
(* ends.  Inside one scan every length is held in units of 1/den.          *)
(* Python indices are 0-based; sequences here are 1-based and every index  *)
(* that the program stores (matched_indices, constellation_index) is       *)
(* stored 0-based, as the program stores it.                               *)
(***************************************************************************)
EXTENDS Integers, Sequences, FiniteSets, TLC

VARIABLES
    constellation_centroids, \* self.constellation_centroids: the catalog's point lists
    pc,                      \* "idle", "scan", "returned" (ransac_match has returned), "done"
    call,                    \* the call in progress: its operation and arguments
    constellation_info,      \* find_specific_constellation: the looked-up entry
    si, ai,                  \* ransac_match: position in scales_to_test / in range(0, 360, step)
    best_match, best_inliers,\* ransac_match: the locals of lines 276-277
    evaluated, fits,         \* number of hypotheses evaluated / of estimator calls, this call
    last,                    \* what the last evaluated hypothesis came to
    best_points,             \* ghost: the pattern points (1-based) that are best_match's inliers
    match,                   \* the value ransac_match returned
    result,                  \* the value the called operation returned
    response,                \* the endpoint's ConstellationResponseSchema
    log,                     \* the lines find_specific_constellation printed
    last_negative,           \* the cause and reason of the last success=false search response
    after_match,             \* ghost: the call before the one in progress had found a match
    catalog_idx, matches,    \* find_constellation_matches: the loop's index and its list
    draw_module,             \* which draw_constellation.py the import of line 587 found
    points, selected_point,  \* interactive_draw: the points placed, the point picked
    last_key,                \* interactive_draw: the key that ended the loop
    drawn_centroids,         \* draw_and_match_constellation: what interactive_draw returned
    _constellation_matcher,  \* app.py: the global; None or the instance, by its number
    constructed,             \* number of ConstellationMatcher instances constructed so far
    requests,                \* the requests in flight: kind, position, the instance obtained
    running,                 \* the request whose handler holds the event loop, or 0
    held,                    \* the value a caller of the two accessors got back and keeps
    db_table,                \* space_objects.db: "absent", or the table's schema
    db_rows,                 \* space_objects.db: the rows of space_objects, in id order
    seg,                     \* process_image: the call's arguments, locals and result
    cancel_requested,        \* the environment has asked for the scan in progress to stop
    strip,                   \* process_image on an image of one row: arguments, locals, result
    extracted                \* extract_properties_fast: the call's arguments and result

vars == <<constellation_centroids, pc, call, constellation_info, si, ai, best_match,
          best_inliers, best_points, evaluated, fits, last, match, result, response, log,
          last_negative, after_match, catalog_idx, matches,
          draw_module, points, selected_point, last_key, drawn_centroids,
          _constellation_matcher, constructed, requests, running, held,
          db_table, db_rows, seg, cancel_requested, strip, extracted>>

\* the state of the call in progress
call_vars ==
    <<pc, call, constellation_info, si, ai, best_match,
      best_inliers, best_points, evaluated, fits, last, match, result, response, log,
      last_negative, after_match, catalog_idx, matches,
      draw_module, points, selected_point, last_key, drawn_centroids>>

\* the state of ConstellationMatcher and of the call in progress
matcher_vars == <<constellation_centroids, call_vars>>

\* what the operations above leave alone: the environment's request, which no operation
\* reads, the pixel-by-pixel run of process_image, and extract_properties_fast
aside_vars == <<cancel_requested, strip, extracted>>

\* the database file
db_vars == <<db_table, db_rows>>

\* app.py's global and the requests being handled
server_vars == <<_constellation_matcher, constructed, requests, running>>

\* the state no operation of ConstellationMatcher reads or writes
apart_vars == <<server_vars, held, db_vars, seg, aside_vars>>

sketch_vars == <<draw_module, points, selected_point, last_key, drawn_centroids>>

None == [none |-> TRUE]

(***************************************************************************)
(* Bounds of the model.                                                    *)
(***************************************************************************)
MaxPatternLen == 4
MaxBackgroundLen == 4
MaxThreshold == 2
MaxScaleSteps == 3
MaxQueryLen == 2
MaxRequests == 3
MaxRows == 4
MaxObjects == 2
MaxLabels == 3

Sq(x) == x * x

RECURSIVE SumSeq(_)
SumSeq(s) == IF s = <<>> THEN 0 ELSE Head(s) + SumSeq(Tail(s))

\* the function f on 1..n as the sequence of its values
RECURSIVE ToSeq(_, _)
ToSeq(f, n) == IF n = 0 THEN <<>> ELSE Append(ToSeq(f, n - 1), f[n])

\* the indices, in order, at which the mask holds (boolean-mask indexing)
MaskIdx(mask) ==
    LET Keep(k) == mask[k]
    IN  SelectSeq(ToSeq([i \in 1..Len(mask) |-> i], Len(mask)), Keep)

(***************************************************************************)
(* numpy: the scales and angles of the grid                                *)
(***************************************************************************)
\* np.linspace(lo, hi, n): n values lo + (i-1)(hi-lo)/(n-1); [lo] when n = 1.
ScaleDen(n) == IF n > 1 THEN n - 1 ELSE 1
ScaleNum(lo, hi, n, i) == lo * ScaleDen(n) + (i - 1) * (hi - lo)

AnglesFromStep(rotation_step) ==
    [k \in 1..((360 + rotation_step - 1) \div rotation_step) |-> k * rotation_step]

\* range(0, 360, rotation_step) for rotation_step >= 1
Angles(rotation_step) ==
    [k \in 1..((360 + rotation_step - 1) \div rotation_step) |-> (k - 1) * rotation_step]

CosDeg(angle) ==
    CASE angle % 360 = 0 -> 1 [] angle % 360 = 90 -> 0
      [] angle % 360 = 180 -> -1 [] angle % 360 = 270 -> 0
SinDeg(angle) ==
    CASE angle % 360 = 0 -> 0 [] angle % 360 = 90 -> 1
      [] angle % 360 = 180 -> 0 [] angle % 360 = 270 -> -1

\* np.dot(points, rotation_matrix.T): each point p becomes R p
Rotate(p, angle) ==
    << p[1] * CosDeg(angle) - p[2] * SinDeg(angle),
       p[1] * SinDeg(angle) + p[2] * CosDeg(angle) >>

Dist2(p, q) == Sq(p[1] - q[1]) + Sq(p[2] - q[2])

(***************************************************************************)
(* cv2.estimateAffinePartial2D(src, dst, method=RANSAC, threshold):        *)
(* the library's minimal-sample consensus.  A model [[a,-b,tx],[b,a,ty]]   *)
(* is solved from two correspondences, its inliers are the correspondences *)
(* it reprojects to within the threshold, and the model with the largest   *)
(* consensus is returned with its inlier mask; (None, zero mask) when no   *)
(* sample gives a model.  The estimator's generator is seeded the same way *)
(* in every call, so the result is a function of the arguments; the sample *)
(* order is taken here as the lexicographic order of index pairs.  The     *)
(* matrix is held as integers a, b, tx, ty over the denominator d.         *)
(***************************************************************************)
KernelModel(s1, s2, d1, d2) ==
    LET dx == s1[1] - s2[1]
        dy == s1[2] - s2[2]
        dX == d1[1] - d2[1]
        dY == d1[2] - d2[2]
        d  == dx * dx + dy * dy
        a  == dX * dx + dY * dy
        b  == dY * dx - dX * dy
    IN  [a |-> a, b |-> b,
         tx |-> d1[1] * d - (a * s1[1] - b * s1[2]),
         ty |-> d1[2] * d - (b * s1[1] + a * s1[2]),
         d |-> d]

Residual2(m, s, t) ==
    Sq(m.a * s[1] - m.b * s[2] + m.tx - m.d * t[1])
  + Sq(m.b * s[1] + m.a * s[2] + m.ty - m.d * t[2])

InlierMask(m, src, dst, thr) ==
    ToSeq([k \in 1..Len(src) |->
              IF Residual2(m, src[k], dst[k]) <= Sq(thr) * Sq(m.d) THEN 1 ELSE 0],
          Len(src))

\* the samples, in order: the index pairs i < j whose source points differ
SamplePairs(src) ==
    LET n == Len(src)
        all == ToSeq([t \in 1..(n * n) |-> <<((t - 1) \div n) + 1, ((t - 1) % n) + 1>>],
                     n * n)
    IN  SelectSeq(all, LAMBDA p : p[1] < p[2] /\ src[p[1]] # src[p[2]])

\* the first candidate of cands[k..] or best with the largest consensus
RECURSIVE BestCandidate(_, _, _)
BestCandidate(cands, k, best) ==
    IF k > Len(cands) THEN best
    ELSE BestCandidate(cands, k + 1, IF cands[k].good > best.good THEN cands[k] ELSE best)

estimateAffinePartial2D(src, dst, thr) ==
    LET pairs == SamplePairs(src)
        cands == ToSeq([t \in 1..Len(pairs) |->
                           LET p == pairs[t]
                               m == KernelModel(src[p[1]], src[p[2]], dst[p[1]], dst[p[2]])
                               mask == InlierMask(m, src, dst, thr)
                           IN  [model |-> m, inliers |-> mask, good |-> SumSeq(mask)]],
                       Len(pairs))
        best == BestCandidate(cands, 2, cands[1])
    IN  IF pairs = <<>>
        THEN [model |-> None, inliers |-> ToSeq([k \in 1..Len(src) |-> 0], Len(src))]
        ELSE [model |-> best.model, inliers |-> best.inliers]

(***************************************************************************)
(* ConstellationMatcher.ransac_match: one (scale, angle) hypothesis        *)
(***************************************************************************)
\* np.argmin over a row of cdist: the first index at the least distance
RECURSIVE FirstMin(_, _, _)
FirstMin(d, j, best) ==
    IF j > Len(d) THEN best ELSE FirstMin(d, j + 1, IF d[j] < d[best] THEN j ELSE best)

ArgMin(p, background) ==
    FirstMin(ToSeq([j \in 1..Len(background) |-> Dist2(p, background[j])], Len(background)),
             2, 1)

\* lines 283-313: the correspondences of hypothesis (i-th scale, angle), in units of 1/den
Correspondences(pattern_centroids, background_centroids, cfg, i, angle) ==
    LET den == ScaleDen(cfg.scale_steps)
        num == ScaleNum(cfg.scale_range[1], cfg.scale_range[2], cfg.scale_steps, i)
        np == Len(pattern_centroids)
        transformed_pattern ==
            ToSeq([k \in 1..np |->
                      Rotate(<<pattern_centroids[k][1] * num, pattern_centroids[k][2] * num>>,
                             angle)], np)
        background ==
            ToSeq([j \in 1..Len(background_centroids) |->
                      <<background_centroids[j][1] * den, background_centroids[j][2] * den>>],
                  Len(background_centroids))
        matches_indices ==
            ToSeq([k \in 1..np |-> ArgMin(transformed_pattern[k], background)], np)
        valid_matches ==
            ToSeq([k \in 1..np |->
                      Dist2(transformed_pattern[k], background[matches_indices[k]])
                          < Sq(cfg.threshold * den)], np)
        kept == MaskIdx(valid_matches)
    IN  [num |-> num, den |-> den,
         kept |-> kept,
         matches |-> ToSeq([n \in 1..Len(kept) |-> matches_indices[kept[n]]], Len(kept)),
         src_points |-> ToSeq([n \in 1..Len(kept) |-> transformed_pattern[kept[n]]],
                              Len(kept)),
         dst_points |-> ToSeq([n \in 1..Len(kept) |-> background[matches_indices[kept[n]]]],
                              Len(kept))]

TooFewPointsPatternOnly(pattern_centroids, background_centroids) ==
    Len(pattern_centroids) < 3

\* line 273: the guard of the immediate "no match"
TooFewPoints(pattern_centroids, background_centroids) ==
    Len(pattern_centroids) < 3 \/ Len(background_centroids) < 3

IsAtLeastAsGood(num_inliers, best, min_inliers) ==
    num_inliers >= best /\ num_inliers >= min_inliers

\* line 328: the hypothesis replaces the best match held
IsBetter(num_inliers, best, min_inliers) ==
    num_inliers > best /\ num_inliers >= min_inliers

InliersRatioOfInliers(num_inliers, pattern_centroids) ==
    [num |-> num_inliers, den |-> num_inliers]

\* line 341: num_inliers / len(pattern_centroids), as the fraction num/den
InliersRatio(num_inliers, pattern_centroids) ==
    [num |-> num_inliers, den |-> Len(pattern_centroids)]

MatchedIndicesOfSurvivors(c, fit) ==
    ToSeq([n \in 1..Len(c.matches) |-> c.matches[n] - 1], Len(c.matches))

\* line 344: matches_indices[valid_matches][inliers.flatten().astype(bool)].tolist(), the
\* background indices counted from 0
MatchedIndices(c, fit) ==
    LET inl == MaskIdx(ToSeq([k \in 1..Len(fit.inliers) |-> fit.inliers[k] = 1],
                              Len(fit.inliers)))
    IN  ToSeq([n \in 1..Len(inl) |-> c.matches[inl[n]] - 1], Len(inl))

\* lines 334-345: the match dictionary.  final_scale = sqrt(a^2 + b^2) is held as its
\* square, the fraction (a^2 + b^2)/d^2; transformation_matrix is [[a,-b,tx],[b,a,ty]]/den
\* in the units of the arguments.
MakeMatch(angle, c, fit, pattern_centroids) ==
    LET m == fit.model
    IN  [rotation_angle |-> angle,
         tested_scale |-> [num |-> c.num, den |-> c.den],
         final_scale_sq |-> [num |-> Sq(m.a) + Sq(m.b), den |-> Sq(m.d)],
         inliers_ratio |-> InliersRatio(SumSeq(fit.inliers), pattern_centroids),
         inliers_count |-> SumSeq(fit.inliers),
         transformation_matrix |->
             [a |-> m.a * c.den, b |-> m.b * c.den, tx |-> m.tx, ty |-> m.ty,
              den |-> m.d * c.den],
         matched_indices |-> MatchedIndices(c, fit)]

\* line 344, read on the pattern's side: the pattern points kept by valid_matches and by
\* the estimator's inlier mask, in order
InlierPoints(c, fit) ==
    LET inl == MaskIdx(ToSeq([k \in 1..Len(fit.inliers) |-> fit.inliers[k] = 1],
                              Len(fit.inliers)))
    IN  ToSeq([n \in 1..Len(inl) |-> c.kept[inl[n]]], Len(inl))

NextScale(s, a, cfg) == <<s + 1, 1>>

\* the loops of lines 283 and 287: the position after hypothesis (s, a)
NextPos(s, a, cfg) ==
    IF a < Len(Angles(cfg.rotation_step)) THEN <<s, a + 1>> ELSE <<s + 1, 1>>

AbortScan(s, a, cfg) == <<cfg.scale_steps + 1, 1>>

\* lines 346-347: except cv2.error: continue
OnCvError(s, a, cfg) == NextPos(s, a, cfg)

\* the counter as the scan before left it
BestInliersLeftOver == best_inliers

\* line 277
BestInliersAtEntry == 0

(***************************************************************************)
(* The catalog.  A name is the sequence of its characters.  The program's  *)
(* 88 names and the point lists read from the processed images are stood   *)
(* for by four entries: two names share a substring, one entry has fewer   *)
(* than 3 points.                                                          *)
(***************************************************************************)
CONSTELLATION_NAMES ==
    << <<"A", "l", "a">>, <<"L", "e", "a">>, <<"L", "e", "a", "l">>, <<"L", "y", "l">> >>

Catalog ==
    << << <<0, 0>>, <<1, 0>>, <<0, 2>> >>,
       << <<0, 0>>, <<1, 0>>, <<0, 1>>, <<-1, 0>> >>,
       << <<0, 0>>, <<2, 0>>, <<0, 1>> >>,
       << <<0, 0>>, <<1, 0>> >> >>

\* str.lower(), character by character
LowerChar(c) ==
    CASE c = "A" -> "a" [] c = "L" -> "l" [] c = "E" -> "e" [] c = "Y" -> "y"
      [] OTHER -> c
Lower(name) == [k \in 1..Len(name) |-> LowerChar(name[k])]

\* the Python operator `in` on strings
IsSubstring(q, s) ==
    \E k \in 0..(Len(s) - Len(q)) : SubSeq(s, k + 1, k + Len(q)) = q

get_last_constellation_by_name(name) ==
    LET name_lower == Lower(name)
        hits == {idx \in 1..Len(CONSTELLATION_NAMES) :
                    IsSubstring(name_lower, Lower(CONSTELLATION_NAMES[idx]))}
    IN  IF hits = {} THEN None
        ELSE LET idx == CHOOSE i \in hits : \A j \in hits : i >= j
             IN  [index |-> idx - 1,
                  name |-> CONSTELLATION_NAMES[idx],
                  centroids |-> constellation_centroids[idx],
                  num_stars |-> Len(constellation_centroids[idx])]

\* lines 228-238: the first entry whose lower-cased name contains the lower-cased query
get_constellation_by_name(name) ==
    LET name_lower == Lower(name)
        hits == {idx \in 1..Len(CONSTELLATION_NAMES) :
                    IsSubstring(name_lower, Lower(CONSTELLATION_NAMES[idx]))}
    IN  IF hits = {} THEN None
        ELSE LET idx == CHOOSE i \in hits : \A j \in hits : i <= j
             IN  [index |-> idx - 1,
                  name |-> CONSTELLATION_NAMES[idx],
                  centroids |-> constellation_centroids[idx],
                  num_stars |-> Len(constellation_centroids[idx])]

\* lines 522-539: rotation by rotation_angle, then the 2x3 matrix; each result is the
\* point (x/den, y/den)
apply_transformation(pts, transformation_matrix, rotation_angle) ==
    [k \in 1..Len(pts) |->
        LET r == Rotate(pts[k], rotation_angle)
            M == transformation_matrix
        IN  [x |-> M.a * r[1] - M.b * r[2] + M.tx,
             y |-> M.b * r[1] + M.a * r[2] + M.ty,
             den |-> M.den]]

(***************************************************************************)
(* The arguments the model draws from.                                     *)
(***************************************************************************)
PatternStars == << <<0, 0>>, <<1, 0>>, <<0, 2>>, <<-1, 0>>, <<0, 1>>, <<2, 2>> >>

\* the pattern itself; the pattern doubled and turned by 90 degrees; the pattern turned by
\* 180 degrees with one star missing; one star near the origin and far decoys
BackgroundShapes ==
    { PatternStars,
      << <<0, 0>>, <<0, 2>>, <<-4, 0>>, <<0, -2>>, <<-2, 0>>, <<-4, 4>> >>,
      << <<0, 0>>, <<1, 0>>, <<-1, 0>>, <<0, -2>>, <<0, -1>>, <<-2, -2>> >>,
      << <<0, 1>>, <<5, 5>>, <<5, 0>>, <<0, 5>>, <<-5, 0>>, <<-5, 5>> >> }

Patterns == {SubSeq(PatternStars, 1, n) : n \in 2..MaxPatternLen}
Backgrounds == {SubSeq(b, 1, n) : b \in BackgroundShapes, n \in 2..MaxBackgroundLen}

\* the tightest threshold of the grid and the widest
Thresholds == {1, MaxThreshold}

Configs ==
    [threshold : Thresholds,
     min_inliers : {2, 3},
     rotation_step : {90, 270},
     scale_range : {<<0, 2>>, <<1, 2>>, <<2, 0>>},
     scale_steps : 0..MaxScaleSteps]

\* the estimator call of a scan (here the 2nd) on which the library raises cv2.error;
\* 0: none
FaultPoints == {0, 2}

QueryChars == {"a", "L", "e", "y"}
Queries == UNION {[1..n -> QueryChars] : n \in 0..MaxQueryLen}

\* the keyword arguments of app.py lines 296-305, in the units of the model's grid:
\* min_inliers is the program's; the threshold, the 15-degree step and the ten scales of
\* 0.3..5.0 are stood for by the grid's
SearchCfg ==
    [threshold |-> MaxThreshold, min_inliers |-> 3, rotation_step |-> 90,
     scale_range |-> <<1, 2>>, scale_steps |-> 2]

\* the requests the server may hold at once, and the slot of one that has not arrived
RequestIds == 1..MaxRequests

NoRequest == [kind |-> "none", at |-> "new", is_none |-> FALSE, matcher |-> None]

(***************************************************************************)
(* The state machine.                                                      *)
(***************************************************************************)
Init ==
    /\ constellation_centroids = Catalog
    /\ pc = "idle"
    /\ call = None
    /\ constellation_info = None
    /\ si = 0 /\ ai = 0
    /\ best_match = None
    /\ best_inliers = 0
    /\ best_points = <<>>
    /\ evaluated = 0 /\ fits = 0
    /\ last = None
    /\ match = None
    /\ result = None
    /\ response = None
    /\ log = <<>>
    /\ last_negative = None
    /\ after_match = FALSE
    /\ catalog_idx = 0 /\ matches = <<>>
    /\ draw_module = None
    /\ points = <<>> /\ selected_point = None
    /\ last_key = None
    /\ drawn_centroids = None
    /\ _constellation_matcher = None
    /\ constructed = 0
    /\ requests = [r \in RequestIds |-> NoRequest]
    /\ running = 0
    /\ held = None
    /\ db_table = "absent" /\ db_rows = <<>>
    /\ seg = None
    /\ cancel_requested = FALSE
    /\ strip = None
    /\ extracted = None

\* ransac_match, lines 270-283: the guard, the locals, and the first hypothesis if any
ransac_match_entry(pattern_centroids, background_centroids, cfg) ==
    /\ evaluated' = 0 /\ fits' = 0 /\ last' = None /\ best_points' = <<>>
    /\ IF TooFewPoints(pattern_centroids, background_centroids)
       THEN /\ pc' = "returned"
            /\ match' = None
            /\ UNCHANGED <<si, ai, best_match, best_inliers>>
       ELSE /\ best_match' = None
            /\ best_inliers' = BestInliersAtEntry
            /\ si' = 1 /\ ai' = 1
            /\ pc' = IF cfg.scale_steps = 0 THEN "returned" ELSE "scan"
            /\ match' = None

\* a direct call of ransac_match
ransac_match(pattern_centroids, background_centroids, cfg, cv_error_at) ==
    /\ call' = [op |-> "ransac_match", name |-> <<>>,
                pattern |-> pattern_centroids, background |-> background_centroids,
                cfg |-> cfg, cv_error_at |-> cv_error_at]
    /\ ransac_match_entry(pattern_centroids, background_centroids, cfg)
    /\ after_match' = (best_inliers > 0)
    /\ UNCHANGED <<constellation_centroids, constellation_info, result, response, log,
                   last_negative, catalog_idx, matches>>
    /\ UNCHANGED <<sketch_vars, apart_vars>>

\* find_specific_constellation, lines 458-487
find_specific_entry(constellation_name, detected_centroids, cfg) ==
    LET info == get_constellation_by_name(constellation_name)
    IN  /\ constellation_info' = info
        /\ IF info = None
           THEN /\ log' = <<"not found in catalog">>
                /\ pc' = "returned" /\ match' = None
                /\ evaluated' = 0 /\ fits' = 0 /\ last' = None /\ best_points' = <<>>
                /\ UNCHANGED <<si, ai, best_match, best_inliers>>
           ELSE IF Len(info.centroids) < 3
           THEN /\ log' = <<"has insufficient stars">>
                /\ pc' = "returned" /\ match' = None
                /\ evaluated' = 0 /\ fits' = 0 /\ last' = None /\ best_points' = <<>>
                /\ UNCHANGED <<si, ai, best_match, best_inliers>>
           ELSE /\ log' = <<"Searching for">>
                /\ ransac_match_entry(info.centroids, detected_centroids, cfg)

CallRecord(op, constellation_name, detected_centroids, cfg, cv_error_at) ==
    LET info == get_constellation_by_name(constellation_name)
    IN  [op |-> op, name |-> constellation_name,
         pattern |-> IF info = None THEN <<>> ELSE info.centroids,
         background |-> detected_centroids, cfg |-> cfg, cv_error_at |-> cv_error_at]

\* a direct call of find_specific_constellation
find_specific_constellation(constellation_name, detected_centroids, cfg, cv_error_at) ==
    /\ call' = CallRecord("find_specific", constellation_name, detected_centroids, cfg,
                          cv_error_at)
    /\ find_specific_entry(constellation_name, detected_centroids, cfg)
    /\ after_match' = (best_inliers > 0)
    /\ UNCHANGED <<constellation_centroids, result, response, last_negative, catalog_idx, matches>>
    /\ UNCHANGED <<sketch_vars, apart_vars>>

\* app.py lines 279-305: POST /constellation/search
constellation_search_endpoint(constellation_name, detected_centroids) ==
    /\ call' = CallRecord("search_endpoint", constellation_name, detected_centroids,
                          SearchCfg, 0)
    /\ IF detected_centroids = <<>>
       THEN /\ response' = [success |-> FALSE,
                            message |-> <<"No detected stars available. Please run star detection first.">>]
            /\ pc' = "done"
            /\ UNCHANGED <<constellation_info, si, ai, best_match, best_inliers,
                           best_points, evaluated, fits, last, match, log>>
       ELSE /\ find_specific_entry(constellation_name, detected_centroids, SearchCfg)
            /\ UNCHANGED response
    /\ after_match' = (best_inliers > 0)
    /\ UNCHANGED <<constellation_centroids, result, last_negative, catalog_idx, matches>>
    /\ UNCHANGED <<sketch_vars, apart_vars>>

\* ransac_match, lines 283-349: one iteration of the nested loops, and the return after
\* the last one
SkipBelowMinInliers(c, cfg) == Len(c.kept) < cfg.min_inliers

\* lines 305-306 and 312-313: the two tests that end the iteration before the estimator
SkipHypothesis(c, cfg) ==
    Len(c.kept) < cfg.min_inliers \/ Len(c.src_points) < 3

HypothesisOutcome(c, fit, cfg, fit_no, cv_error_at, best) ==
    LET skipped == SkipHypothesis(c, cfg)
        raises == ~skipped /\ fit_no = cv_error_at
        fitted == ~skipped /\ ~raises /\ fit.model # None
        num_inliers == SumSeq(fit.inliers)
        accept == fitted /\ IsBetter(num_inliers, best, cfg.min_inliers)
    IN  [outcome |-> IF skipped THEN "skipped"
                     ELSE IF raises THEN "cv2.error"
                     ELSE IF ~fitted THEN "no model"
                     ELSE IF accept THEN "accepted" ELSE "rejected",
         num_inliers |-> IF fitted THEN num_inliers ELSE -1,
         survivors |-> Len(c.kept)]

EvalHypothesis ==
    /\ pc = "scan"
    /\ LET cfg == call.cfg
           angle == Angles(cfg.rotation_step)[ai]
       IN  \E c \in {Correspondences(call.pattern, call.background, cfg, si, angle)} :
           \E fit \in {estimateAffinePartial2D(c.src_points, c.dst_points,
                                               cfg.threshold * c.den)} :
           \E o \in {HypothesisOutcome(c, fit, cfg, fits + 1, call.cv_error_at,
                                       best_inliers)} :
           \E pos \in {IF o.outcome = "cv2.error" THEN OnCvError(si, ai, cfg)
                       ELSE NextPos(si, ai, cfg)} :
              /\ evaluated' = evaluated + 1
              /\ fits' = IF o.outcome = "skipped" THEN fits ELSE fits + 1
              /\ last' = o
              /\ best_inliers' = IF o.outcome = "accepted" THEN o.num_inliers
                                 ELSE best_inliers
              /\ best_match' = IF o.outcome = "accepted"
                               THEN MakeMatch(angle, c, fit, call.pattern)
                               ELSE best_match
              /\ best_points' = IF o.outcome = "accepted" THEN InlierPoints(c, fit)
                                ELSE best_points
              /\ si' = pos[1] /\ ai' = pos[2]
              /\ IF pos[1] > cfg.scale_steps
                 THEN pc' = "returned" /\ match' = best_match'
                 ELSE pc' = "scan" /\ UNCHANGED match
    /\ UNCHANGED <<constellation_centroids, call, constellation_info, result, response, log,
                   last_negative, after_match, catalog_idx, matches>>
    /\ UNCHANGED <<sketch_vars, apart_vars>>

\* find_specific_constellation, lines 489-503: the entry's index and name are attached
NamedMatch(m, info) ==
    [rotation_angle |-> m.rotation_angle, tested_scale |-> m.tested_scale,
     final_scale_sq |-> m.final_scale_sq, inliers_ratio |-> m.inliers_ratio,
     inliers_count |-> m.inliers_count,
     transformation_matrix |-> m.transformation_matrix,
     matched_indices |-> m.matched_indices,
     constellation_index |-> info.index, constellation_name |-> info.name]

\* app.py lines 307-333: the response of POST /constellation/search
SearchResponse(m, constellation_name) ==
    IF m # None
    THEN [success |-> TRUE,
          message |-> <<"Constellation found!">>,
          constellation_name |-> m.constellation_name,
          constellation_index |-> m.constellation_index,
          inliers_count |-> m.inliers_count,
          total_points |-> 0,
          inliers_ratio |-> m.inliers_ratio,
          rotation_angle |-> m.rotation_angle,
          scale_sq |-> m.final_scale_sq,
          position |-> apply_transformation(<< <<256, 256>> >>, m.transformation_matrix,
                                            m.rotation_angle)[1],
          transformation_matrix |-> m.transformation_matrix,
          matched_indices |-> m.matched_indices]
    ELSE [success |-> FALSE,
          message |-> <<"Constellation '", constellation_name,
                        "' not found in the detected stars.">>]

\* the rest of the called operation once ransac_match has returned (or was not reached)
Finish ==
    /\ pc = "returned"
    /\ call.op \in {"ransac_match", "find_specific", "search_endpoint"}
    /\ pc' = "done"
    /\ LET named == IF match # None THEN NamedMatch(match, constellation_info) ELSE None
       IN  CASE call.op = "ransac_match" ->
                  /\ result' = match
                  /\ UNCHANGED <<response, log>>
             [] call.op = "find_specific" ->
                  /\ result' = named
                  /\ log' = IF constellation_info = None \/ Len(call.pattern) < 3 THEN log
                            ELSE IF match # None THEN Append(log, "Found")
                            ELSE Append(log, "Could not find a match for")
                  /\ UNCHANGED response
             [] call.op = "search_endpoint" ->
                  /\ result' = named
                  /\ log' = IF constellation_info = None \/ Len(call.pattern) < 3 THEN log
                            ELSE IF match # None THEN Append(log, "Found")
                            ELSE Append(log, "Could not find a match for")
                  /\ response' = SearchResponse(named, call.name)
    /\ UNCHANGED <<constellation_centroids, call, constellation_info, si, ai, best_match,
                   best_inliers, best_points, evaluated, fits, last, match, last_negative,
                   after_match, catalog_idx, matches>>
    /\ UNCHANGED <<sketch_vars, apart_vars>>

(***************************************************************************)
(* find_constellation_matches, lines 380-425: every catalog entry of at    *)
(* least 3 points is searched in catalog order; the matches found are      *)
(* sorted by inliers_ratio, best first.                                    *)
(***************************************************************************)
RatioGreater(r, q) == r.num * q.den > q.num * r.den

\* the list so far, sorted, with m placed before the entries of the same ratio
InsertBeforeEqual(sorted, m) ==
    LET k == Cardinality({i \in 1..Len(sorted) :
                             RatioGreater(sorted[i].inliers_ratio, m.inliers_ratio)})
    IN  SubSeq(sorted, 1, k) \o <<m>> \o SubSeq(sorted, k + 1, Len(sorted))

\* list.sort(key=inliers_ratio, reverse=True), one element at a time: m goes behind every
\* entry whose ratio is not smaller, so entries of equal ratio keep their order
InsertSorted(sorted, m) ==
    LET k == Cardinality({i \in 1..Len(sorted) :
                             ~RatioGreater(m.inliers_ratio, sorted[i].inliers_ratio)})
    IN  SubSeq(sorted, 1, k) \o <<m>> \o SubSeq(sorted, k + 1, Len(sorted))

RECURSIVE SortByInliersRatio(_)
SortByInliersRatio(ms) ==
    IF ms = <<>> THEN <<>>
    ELSE InsertSorted(SortByInliersRatio(SubSeq(ms, 1, Len(ms) - 1)), ms[Len(ms)])

\* lines 387-391: the first entry at or after position i (1-based) with at least 3 points;
\* 0 when the loop is over
NextSearched(i) ==
    LET rest == {j \in i..Len(constellation_centroids) :
                    Len(constellation_centroids[j]) >= 3}
    IN  IF rest = {} THEN 0 ELSE CHOOSE j \in rest : \A k \in rest : j <= k

\* the loop from position i on: the next ransac_match call, or the sort and the return
find_all_from(i, detected_centroids, cfg, found) ==
    \E j \in {NextSearched(i)} :
       /\ matches' = found
       /\ IF j = 0
          THEN /\ result' = SortByInliersRatio(found)
               /\ pc' = "done"
               /\ UNCHANGED <<call, catalog_idx, si, ai, best_match, best_inliers, best_points,
                              evaluated, fits, last, match>>
          ELSE /\ catalog_idx' = j - 1
               /\ call' = [op |-> "find_all", name |-> <<>>,
                           pattern |-> constellation_centroids[j],
                           background |-> detected_centroids, cfg |-> cfg,
                           cv_error_at |-> 0]
               /\ ransac_match_entry(constellation_centroids[j], detected_centroids, cfg)
               /\ UNCHANGED result

find_constellation_matches(detected_centroids, cfg) ==
    /\ find_all_from(1, detected_centroids, cfg, <<>>)
    /\ after_match' = (best_inliers > 0)
    /\ UNCHANGED <<constellation_centroids, constellation_info, response, log,
                   last_negative>>
    /\ UNCHANGED <<sketch_vars, apart_vars>>

\* lines 408-411, and the loop's next turn
FindAllStep ==
    /\ pc = "returned"
    /\ call.op = "find_all"
    /\ find_all_from(catalog_idx + 2, call.background, call.cfg,
                     IF match # None
                     THEN Append(matches,
                                 NamedMatch(match,
                                            [index |-> catalog_idx,
                                             name |-> CONSTELLATION_NAMES[catalog_idx + 1]]))
                     ELSE matches)
    /\ UNCHANGED <<constellation_centroids, constellation_info, response, log,
                   last_negative, after_match>>
    /\ UNCHANGED <<sketch_vars, apart_vars>>

\* the cause of a success=false search response, read off the lines printed, and its
\* reason: the message without the name the request gave
NegativeCause ==
    IF log = <<>> THEN "no detected stars"
    ELSE IF log[1] = "not found in catalog" THEN "not in catalog"
    ELSE IF log[1] = "has insufficient stars" THEN "insufficient points"
    ELSE "no geometric match"

Reason(message) ==
    IF Len(message) = 3 THEN <<message[1], message[3]>> ELSE message

\* the caller has the result; the matcher is ready for the next call.  The scan's counter
\* is left as the last scan wrote it.
ResetTo(negative) ==
    /\ pc = "done"
    /\ pc' = "idle"
    /\ call' = None /\ constellation_info' = None
    /\ si' = 0 /\ ai' = 0 /\ best_match' = None /\ best_points' = <<>>
    /\ evaluated' = 0 /\ fits' = 0 /\ last' = None
    /\ match' = None /\ result' = None /\ response' = None /\ log' = <<>>
    /\ last_negative' = negative /\ after_match' = FALSE
    /\ catalog_idx' = 0 /\ matches' = <<>>
    /\ draw_module' = None
    /\ points' = <<>> /\ selected_point' = None
    /\ last_key' = None
    /\ drawn_centroids' = None
    /\ UNCHANGED <<constellation_centroids, best_inliers>>
    /\ UNCHANGED apart_vars

Reset == ResetTo(last_negative)

\* as Reset, and a success=false search response is remembered by its cause and reason
Remember ==
    ResetTo(IF call.op = "search_endpoint" /\ ~response.success
            THEN [cause |-> NegativeCause, reason |-> Reason(response.message)]
            ELSE last_negative)

(***************************************************************************)
(* draw_and_match_constellation, lines 577-681, called by POST             *)
(* /constellation/draw, and interactive_draw.  Two files define            *)
(* interactive_draw: line 587 imports the one `draw_constellation` names   *)
(* at that moment, src/tests first on sys.path unless the module is        *)
(* already loaded or the directory already listed.  The sketch is made of  *)
(* mouse clicks and key presses, one step each.                            *)
(***************************************************************************)
DrawingModules == {"tests", "python"}

\* find_nearest_point's max_distance
PickRadius == 15

\* clicks on three stars of the pattern and on two points away from all of them
SketchClicks == {PatternStars[k] : k \in 1..3} \cup {<<16, 0>>, <<0, 32>>}

DrawBackgrounds == {SubSeq(b, 1, MaxBackgroundLen) : b \in BackgroundShapes}

\* app.py lines 361-373, on the model's grid
DrawCfg ==
    [threshold |-> MaxThreshold, min_inliers |-> 3, rotation_step |-> 90,
     scale_range |-> <<1, 2>>, scale_steps |-> 2]

\* src/tests/draw_constellation.py lines 31-44: the index of the nearest point within
\* max_distance, the first of them on a tie; 0 when there is none
find_nearest_point(pts, p) ==
    LET near == {i \in 1..Len(pts) : Dist2(pts[i], p) <= Sq(PickRadius)}
    IN  IF near = {} THEN 0
        ELSE CHOOSE i \in near :
                \A j \in near : Dist2(pts[i], p) < Dist2(pts[j], p)
                                   \/ (Dist2(pts[i], p) = Dist2(pts[j], p) /\ i <= j)

\* what interactive_draw returns: src/python/draw_constellation.py line 86
ReturnPoints(pts) == pts

\* what interactive_draw returns: src/tests/draw_constellation.py line 124
ReturnPointsAndCanvas(pts) == <<pts, "canvas">>

interactive_draw_return(module, pts) ==
    IF module = "tests" THEN ReturnPointsAndCanvas(pts) ELSE ReturnPoints(pts)

\* app.py lines 336-373, and lines 577-606 up to the window opening
constellation_draw_endpoint(detected_centroids, module) ==
    /\ pc' = "drawing"
    /\ call' = [op |-> "draw_endpoint", name |-> <<>>, pattern |-> <<>>,
                background |-> detected_centroids, cfg |-> DrawCfg, cv_error_at |-> 0]
    /\ draw_module' = module
    /\ points' = <<>> /\ selected_point' = None
    /\ last_key' = None /\ drawn_centroids' = None
    /\ log' = <<"DRAW YOUR CONSTELLATION">>
    /\ after_match' = (best_inliers > 0)
    /\ UNCHANGED <<constellation_centroids, constellation_info, si, ai, best_match,
                   best_inliers, best_points, evaluated, fits, last, match, result,
                   response, last_negative, catalog_idx, matches>>
    /\ UNCHANGED apart_vars

\* mouse_callback on EVENT_LBUTTONDOWN: tests lines 50-70, python lines 28-38
Click ==
    /\ pc = "drawing"
    /\ Len(points) < MaxPatternLen
    /\ \E p \in SketchClicks :
       \E n \in {IF draw_module = "tests" THEN find_nearest_point(points, p) ELSE 0} :
          IF n # 0
          THEN /\ selected_point' = IF selected_point = None THEN points[n] ELSE None
               /\ UNCHANGED points
          ELSE /\ points' = Append(points, p)
               /\ selected_point' = None
    /\ UNCHANGED <<constellation_centroids, pc, call, constellation_info, si, ai,
                   best_match, best_inliers, best_points, evaluated, fits, last, match,
                   result, response, log, last_negative, after_match, catalog_idx,
                   matches, draw_module, last_key, drawn_centroids>>
    /\ UNCHANGED apart_vars

\* the key loop, key C: tests lines 109-115, python lines 72-77
KeyClear ==
    /\ pc = "drawing"
    /\ points' = <<>> /\ selected_point' = None
    /\ UNCHANGED <<constellation_centroids, pc, call, constellation_info, si, ai,
                   best_match, best_inliers, best_points, evaluated, fits, last, match,
                   result, response, log, last_negative, after_match, catalog_idx,
                   matches, draw_module, last_key, drawn_centroids>>
    /\ UNCHANGED apart_vars

\* the key loop ends on key D or ESC (tests lines 105-108, 116-124; python lines 68-71,
\* 78-86), interactive_draw returns, and draw_and_match_constellation goes on, lines
\* 608-633
KeyEnd(key) ==
    /\ pc = "drawing"
    /\ last_key' = key
    /\ \E drawn \in {interactive_draw_return(draw_module, points)} :
          /\ drawn_centroids' = drawn
          /\ IF Len(drawn) = 0 \/ Len(drawn) < 3
             THEN /\ log' = Append(log, "Insufficient points drawn")
                  /\ pc' = "returned" /\ match' = None
                  /\ evaluated' = 0 /\ fits' = 0 /\ last' = None /\ best_points' = <<>>
                  /\ UNCHANGED <<call, si, ai, best_match, best_inliers>>
             ELSE /\ log' = Append(log, "Searching for match in detected objects")
                  /\ call' = [call EXCEPT !.pattern = drawn]
                  /\ ransac_match_entry(drawn, call.background, call.cfg)
    /\ UNCHANGED <<constellation_centroids, constellation_info, result, response,
                   last_negative, after_match, catalog_idx, matches, draw_module, points,
                   selected_point>>
    /\ UNCHANGED apart_vars

KeyDone == KeyEnd("d")

KeyEscape == KeyEnd("ESC")

\* lines 635-637: the match of a sketch
DrawnMatch(m, drawn) ==
    [rotation_angle |-> m.rotation_angle, tested_scale |-> m.tested_scale,
     final_scale_sq |-> m.final_scale_sq, inliers_ratio |-> m.inliers_ratio,
     inliers_count |-> m.inliers_count,
     transformation_matrix |-> m.transformation_matrix,
     matched_indices |-> m.matched_indices,
     constellation_name |-> <<"Custom Drawn Pattern">>,
     pattern_centroids |-> drawn]

\* app.py lines 375-407: the response of POST /constellation/draw
DrawResponse(m) ==
    IF m # None
    THEN [success |-> TRUE,
          message |-> <<"Custom constellation matched!">>,
          constellation_name |-> m.constellation_name,
          constellation_index |-> None,
          inliers_count |-> m.inliers_count,
          total_points |-> Len(m.pattern_centroids),
          inliers_ratio |-> m.inliers_ratio,
          rotation_angle |-> m.rotation_angle,
          scale_sq |-> m.final_scale_sq,
          position |-> apply_transformation(<< <<256, 256>> >>, m.transformation_matrix,
                                            m.rotation_angle)[1],
          transformation_matrix |-> m.transformation_matrix,
          matched_indices |-> m.matched_indices]
    ELSE [success |-> FALSE,
          message |-> <<"No match found for your drawn pattern.">>]

\* lines 635-670 once ransac_match has returned (or was not reached), and app.py lines
\* 375-407
DrawFinish ==
    /\ pc = "returned"
    /\ call.op = "draw_endpoint"
    /\ pc' = "done"
    /\ \E m \in {IF match # None THEN DrawnMatch(match, drawn_centroids) ELSE None} :
          /\ result' = m
          /\ response' = DrawResponse(m)
          /\ log' = IF Len(call.pattern) < 3 THEN log
                    ELSE IF m # None THEN Append(log, "MATCH FOUND!")
                    ELSE Append(log, "NO MATCH FOUND")
    /\ UNCHANGED <<constellation_centroids, call, constellation_info, si, ai, best_match,
                   best_inliers, best_points, evaluated, fits, last, match, last_negative,
                   after_match, catalog_idx, matches>>
    /\ UNCHANGED <<sketch_vars, apart_vars>>

DrawCall ==
    /\ pc = "idle"
    /\ \E b \in DrawBackgrounds, module \in DrawingModules :
          constellation_draw_endpoint(b, module)

\* the calls the environment makes, one at a time
RansacMatchCall ==
    /\ pc = "idle"
    /\ \E p \in Patterns, b \in Backgrounds, cfg \in Configs, f \in FaultPoints :
          ransac_match(p, b, cfg, f)

FindSpecificCall ==
    /\ pc = "idle"
    /\ \E q \in Queries, b \in Backgrounds, t \in Thresholds :
          find_specific_constellation(q, b, [SearchCfg EXCEPT !.threshold = t], 0)

SearchCall ==
    /\ pc = "idle"
    /\ \E q \in Queries, b \in Backgrounds \cup {<<>>} : constellation_search_endpoint(q, b)

FindAllCall ==
    /\ pc = "idle"
    /\ \E b \in Backgrounds, t \in Thresholds :
          find_constellation_matches(b, [SearchCfg EXCEPT !.threshold = t])

Next ==
    \/ RansacMatchCall
    \/ FindSpecificCall
    \/ SearchCall
    \/ EvalHypothesis
    \/ Finish
    \/ Reset

Spec == Init /\ [][Next]_vars

\* search requests alone, each negative response remembered
SearchNext ==
    \/ SearchCall
    \/ EvalHypothesis
    \/ Finish
    \/ Remember

SearchSpec == Init /\ [][SearchNext]_vars

(***************************************************************************)
(* The claims.                                                             *)
(***************************************************************************)
\* the call in progress has entered ransac_match
RansacCalled ==
    /\ call # None
    /\ \/ call.op = "ransac_match"
       \/ constellation_info # None /\ Len(call.pattern) >= 3

\* ransac_match has returned to its caller
RansacReturned == RansacCalled /\ pc \in {"returned", "done"}

\* C1: ransac_match called with fewer than 3 pattern points or fewer than 3 background
\* points returns None at once: no hypothesis is evaluated and no fit is attempted,
\* whatever the configuration.
C1_TooFewPointsNoMatch ==
    (RansacCalled /\ (Len(call.pattern) < 3 \/ Len(call.background) < 3))
        => /\ pc # "scan"
           /\ evaluated = 0 /\ fits = 0
           /\ match = None

C1_Witness ==
    /\ pc = "done" /\ call.op = "ransac_match"
    /\ Len(call.pattern) >= 3 /\ Len(call.background) < 3
    /\ call.cfg.scale_steps > 0
    /\ result = None

\* C2: every result ransac_match returns has inliers_count <= len(patternPoints) and
\* inliers_ratio = inliers_count / len(patternPoints), the original number of pattern
\* points, hence 0 <= inliers_ratio <= 1.
C2_InliersRatio ==
    (RansacReturned /\ match # None)
        => /\ match.inliers_count <= Len(call.pattern)
           /\ match.inliers_ratio.den > 0
           /\ match.inliers_ratio.num * Len(call.pattern)
                  = match.inliers_count * match.inliers_ratio.den
           /\ 0 <= match.inliers_ratio.num
           /\ match.inliers_ratio.num <= match.inliers_ratio.den

\* a match in which not every pattern point is an inlier
C2_Witness ==
    /\ RansacReturned /\ match # None
    /\ match.inliers_count < Len(call.pattern)
    /\ match.inliers_count >= 3

\* C3: every result ransac_match returns has rotation_angle in [0, 360), one of the
\* tested angles 0, step, 2 step, ... below 360 of the configured rotationStep.
C3_RotationAngle ==
    (RansacReturned /\ match # None)
        => /\ 0 <= match.rotation_angle /\ match.rotation_angle < 360
           /\ match.rotation_angle % call.cfg.rotation_step = 0

C3_Witness ==
    /\ RansacReturned /\ match # None
    /\ match.rotation_angle = 270

NumHypotheses(cfg) == cfg.scale_steps * Len(Angles(cfg.rotation_step))

RECURSIVE ScanRows(_, _, _, _, _, _)
ScanRows(pattern_centroids, background_centroids, cfg, cv_error_at, h, fit_calls) ==
    IF h > NumHypotheses(cfg) THEN <<>>
    ELSE LET n == Len(Angles(cfg.rotation_step))
             i == ((h - 1) \div n) + 1
             angle == Angles(cfg.rotation_step)[((h - 1) % n) + 1]
             c == Correspondences(pattern_centroids, background_centroids, cfg, i, angle)
             attempted == Len(c.kept) >= cfg.min_inliers /\ Len(c.src_points) >= 3
             fit == estimateAffinePartial2D(c.src_points, c.dst_points,
                                            cfg.threshold * c.den)
             fitted == /\ attempted
                       /\ fit_calls + 1 # cv_error_at
                       /\ fit.model # None
             row == [count |-> IF fitted THEN SumSeq(fit.inliers) ELSE -1,
                     angle |-> angle,
                     scale |-> [num |-> c.num, den |-> c.den]]
         IN  <<row>> \o ScanRows(pattern_centroids, background_centroids, cfg, cv_error_at,
                                 h + 1, IF attempted THEN fit_calls + 1 ELSE fit_calls)

ScanTable(pattern_centroids, background_centroids, cfg, cv_error_at) ==
    IF Len(pattern_centroids) < 3 \/ Len(background_centroids) < 3 THEN <<>>
    ELSE ScanRows(pattern_centroids, background_centroids, cfg, cv_error_at, 1, 0)

\* the match that the fit of row h stands for
RowMatch(pattern_centroids, background_centroids, cfg, h) ==
    LET n == Len(Angles(cfg.rotation_step))
        angle == Angles(cfg.rotation_step)[((h - 1) % n) + 1]
        c == Correspondences(pattern_centroids, background_centroids, cfg,
                             ((h - 1) \div n) + 1, angle)
    IN  MakeMatch(angle, c,
                  estimateAffinePartial2D(c.src_points, c.dst_points, cfg.threshold * c.den),
                  pattern_centroids)

\* the rows that reach min_inliers, and the first row among them with the highest count
Reaching(table, min_inliers) == {h \in 1..Len(table) : table[h].count >= min_inliers}

FirstHighest(table, min_inliers) ==
    CHOOSE h \in Reaching(table, min_inliers) :
        /\ \A g \in Reaching(table, min_inliers) : table[g].count <= table[h].count
        /\ \A g \in 1..(h - 1) : table[g].count < table[h].count

\* C5: ransac_match returns what its arguments determine (pattern points, background
\* points, configuration; the estimator being a function of its arguments): two calls with
\* the same arguments return the same match in every field, whatever calls came before.
C5_Determinism ==
    (RansacCalled /\ pc = "returned")
        => \E table \in {ScanTable(call.pattern, call.background, call.cfg,
                                   call.cv_error_at)} :
              match = IF Reaching(table, call.cfg.min_inliers) = {} THEN None
                      ELSE RowMatch(call.pattern, call.background, call.cfg,
                                    FirstHighest(table, call.cfg.min_inliers))

\* a call that follows one that found a match, and finds a match of 3 inliers itself
C5_Witness ==
    /\ RansacCalled /\ pc = "returned"
    /\ after_match
    /\ match # None
    /\ match.inliers_count = 3

\* C7: ransac_match returns the hypothesis with the highest fitted inlier count among
\* those whose count is at least min_inliers, the first evaluated (scale outer loop,
\* rotation inner loop) when several share that count, and None exactly when no
\* hypothesis reaches min_inliers.
C7_Selection ==
    (RansacCalled /\ pc = "done")
        => \E table \in {ScanTable(call.pattern, call.background, call.cfg,
                                   call.cv_error_at)} :
           \E good \in {{h \in 1..Len(table) : table[h].count >= call.cfg.min_inliers}} :
              /\ match = None <=> good = {}
              /\ match # None =>
                    \E h \in good :
                       /\ \A g \in good : table[g].count <= table[h].count
                       /\ \A g \in good : g < h => table[g].count < table[h].count
                       /\ match.inliers_count = table[h].count
                       /\ match.rotation_angle = table[h].angle
                       /\ match.tested_scale = table[h].scale

\* the returned hypothesis replaced an earlier one, and a later one ties with it
C7_Witness ==
    /\ RansacCalled /\ pc = "done" /\ match # None
    /\ \E table \in {ScanTable(call.pattern, call.background, call.cfg,
                               call.cv_error_at)} :
       \E h \in 1..Len(table) :
          /\ table[h].count = match.inliers_count
          /\ table[h].angle = match.rotation_angle
          /\ table[h].scale = match.tested_scale
          /\ \E g \in 1..(h - 1) : /\ table[g].count >= call.cfg.min_inliers
                                   /\ table[g].count < table[h].count
          /\ \E g \in (h + 1)..Len(table) : table[g].count = table[h].count

\* C6: for every match ransac_match returns, apply_transformation(pattern points,
\* transformation_matrix, rotation_angle) maps the inlier pattern point of every entry of
\* matched_indices to within the distance threshold of the background point at that
\* index, whatever the tested scale.
C6_RoundTrip ==
    (RansacCalled /\ pc = "returned" /\ match # None)
        => \E image \in {apply_transformation(call.pattern, match.transformation_matrix,
                                              match.rotation_angle)} :
              \A n \in 1..Len(match.matched_indices) :
                 LET t == image[best_points[n]]
                     q == call.background[match.matched_indices[n] + 1]
                 IN  Sq(t.x - q[1] * t.den) + Sq(t.y - q[2] * t.den)
                         <= Sq(call.cfg.threshold * t.den)

\* C8: a hypothesis whose fit fails (the estimator raises cv2.error, or returns no model)
\* leaves the best match held unchanged and does not end the scan: every remaining
\* (scale, angle) hypothesis is evaluated and ransac_match returns.
C8_FailedFitSkipped ==
    /\ [][(pc = "scan" /\ last' # None /\ last'.outcome \in {"cv2.error", "no model"})
             => /\ best_match' = best_match
                /\ best_inliers' = best_inliers
                /\ evaluated' = evaluated + 1
                /\ pc' \in {"scan", "returned"}
                /\ (pc' = "returned") = (evaluated' = NumHypotheses(call.cfg))]_vars
    /\ []((RansacCalled /\ pc \in {"returned", "done"}
              /\ Len(call.pattern) >= 3 /\ Len(call.background) >= 3)
            => evaluated = NumHypotheses(call.cfg))

\* the estimator has raised while a best match was held, and hypotheses remain
C8_Witness ==
    /\ pc = "scan" /\ last # None /\ last.outcome = "cv2.error"
    /\ best_match # None
    /\ evaluated < NumHypotheses(call.cfg)

\* find_specific_constellation has been called and has returned to its caller
FindSpecificReturned ==
    /\ call # None
    /\ \/ call.op = "find_specific"
       \/ call.op = "search_endpoint" /\ call.background # <<>>
    /\ pc \in {"returned", "done"}

\* the catalog entries (1-based) whose name contains the query, letter case set aside
NameHits(query) ==
    {i \in 1..Len(CONSTELLATION_NAMES) :
        \E k \in 0..(Len(CONSTELLATION_NAMES[i]) - Len(query)) :
           \A j \in 1..Len(query) :
              LowerChar(CONSTELLATION_NAMES[i][k + j]) = LowerChar(query[j])}

\* C9: find_specific_constellation looks the name up by case-insensitive substring over
\* the catalog names; of the entries whose name contains the query the one of lowest
\* index is the one searched, and the constellation_index and constellation_name
\* attached to a match are that entry's (the name the catalog holds at that index).
C9_NameLookup ==
    FindSpecificReturned
        => \E hits \in {NameHits(call.name)} :
              /\ hits = {} => constellation_info = None /\ match = None
              /\ hits # {} =>
                    \E first \in hits :
                       /\ \A i \in hits : first <= i
                       /\ constellation_info # None
                       /\ constellation_info.index = first - 1
                       /\ call.pattern = constellation_centroids[first]
                       /\ (pc = "done" /\ result # None)
                             => /\ result.constellation_index = first - 1
                                /\ result.constellation_name = CONSTELLATION_NAMES[first]

\* a match for a query in another letter case than the catalog's, which several names
\* contain
C9_Witness ==
    /\ FindSpecificReturned /\ pc = "done" /\ result # None
    /\ Cardinality(NameHits(call.name)) >= 2
    /\ ~IsSubstring(call.name, result.constellation_name)

\* C10: the success=false response of a search differs in its reason between the three
\* causes of a negative outcome: the name is not in the catalog, the entry has fewer than
\* 3 points, the entry was searched and no geometric match exists.
C10_ReasonTellsCause ==
    (/\ pc = "done" /\ call.op = "search_endpoint"
     /\ ~response.success /\ NegativeCause # "no detected stars"
     /\ last_negative # None /\ last_negative.cause # "no detected stars"
     /\ last_negative.cause # NegativeCause)
        => Reason(response.message) # last_negative.reason

\* searches of the whole catalog alone
FindAllNext ==
    \/ FindAllCall
    \/ EvalHypothesis
    \/ FindAllStep
    \/ Reset

FindAllSpec == Init /\ [][FindAllNext]_vars

\* C11: find_constellation_matches returns its matches in descending order of
\* inliers_ratio, and matches of identical inliers_ratio in the order of their catalog
\* index; the list returned holds the matches found, each once.
C11_SortedStable ==
    (pc = "done" /\ call.op = "find_all")
        => /\ Len(result) = Len(matches)
           /\ \A m \in 1..Len(matches) : \E i \in 1..Len(result) : result[i] = matches[m]
           /\ \A i, j \in 1..Len(result) :
                 i < j =>
                    LET r == result[i].inliers_ratio
                        q == result[j].inliers_ratio
                    IN  \/ r.num * q.den > q.num * r.den
                        \/ /\ r.num * q.den = q.num * r.den
                           /\ result[i].constellation_index < result[j].constellation_index

\* three matches, two of them of one ratio, that the sort had to reorder
C11_Witness ==
    /\ pc = "done" /\ call.op = "find_all"
    /\ Len(result) >= 3
    /\ result # matches
    /\ \E i \in 1..(Len(result) - 1) :
          result[i].inliers_ratio = result[i + 1].inliers_ratio

(***************************************************************************)
(* Sketch requests alone.                                                  *)
(***************************************************************************)
DrawNext ==
    \/ DrawCall
    \/ Click
    \/ KeyClear
    \/ KeyDone
    \/ KeyEscape
    \/ EvalHypothesis
    \/ DrawFinish
    \/ Reset

DrawSpec == Init /\ [][DrawNext]_vars

\* the sketch has been handed back to draw_and_match_constellation
SketchReturned ==
    /\ call # None
    /\ call.op = "draw_endpoint"
    /\ pc \in {"scan", "returned", "done"}

\* C12: a sketch of fewer than 3 points is reported as insufficient and no search is
\* made; a sketch of 3 or more points, finished with D, is handed to ransac_match as the
\* pattern, the points in drawing order.
C12_SketchDelegates ==
    SketchReturned =>
       IF Len(points) < 3
       THEN /\ log[Len(log)] \in {"Insufficient points drawn"}
            /\ evaluated = 0 /\ match = None
       ELSE last_key = "d" =>
               /\ "Searching for match in detected objects" \in {log[i] : i \in 1..Len(log)}
               /\ call.pattern = points

\* a scale range whose lower end is not below its upper end
InvalidScaleRange(cfg) == cfg.scale_range[1] >= cfg.scale_range[2]

\* C13: a call of ransac_match with scale_range min >= max returns no match.
C13_InvalidConfigRejected ==
    (RansacReturned /\ call.op = "ransac_match" /\ InvalidScaleRange(call.cfg))
       => match = None

(***************************************************************************)
(* app.py: the server.  Both constellation endpoints are `async def`: the  *)
(* handlers of all requests run on one event loop, and a handler gives the *)
(* loop up only at an await or at its end.  A handler is followed through  *)
(* get_constellation_matcher, lines 55-61: the test of the global, the     *)
(* construction and assignment, the return; then the rest of the handler.  *)
(***************************************************************************)
\* the positions at which a handler awaits: there is no await in either handler nor in
\* get_constellation_matcher
AwaitAfterCheck == {"checked"}

AwaitPoints == {}

\* the handler of request r may take a step: the loop is free or it holds the loop
MayRun(r) == running = 0 \/ running = r

\* who holds the loop after request r has come to position at
Holder(r, at) == IF at \in AwaitPoints \cup {"done"} THEN 0 ELSE r

\* a request arrives: app.py lines 260-261, 329-330
Arrive ==
    /\ \E r \in RequestIds, kind \in {"search", "draw"} :
          /\ requests[r].at = "new"
          /\ requests' = [requests EXCEPT ![r] = [NoRequest EXCEPT !.kind = kind,
                                                                    !.at = "ready"]]
    /\ UNCHANGED <<_constellation_matcher, constructed, running>>
    /\ UNCHANGED <<matcher_vars, held, db_vars, seg, aside_vars>>

\* line 57: if _constellation_matcher is None
CheckNone ==
    /\ \E r \in RequestIds :
          /\ MayRun(r)
          /\ requests[r].at = "ready"
          /\ requests' = [requests EXCEPT ![r].at = "checked",
                                          ![r].is_none = (_constellation_matcher = None)]
          /\ running' = Holder(r, "checked")
    /\ UNCHANGED <<_constellation_matcher, constructed>>
    /\ UNCHANGED <<matcher_vars, held, db_vars, seg, aside_vars>>

\* lines 58-61: the construction and the assignment if the test found None; the return
ConstructOrReturn ==
    /\ \E r \in RequestIds :
          /\ MayRun(r)
          /\ requests[r].at = "checked"
          /\ IF requests[r].is_none
             THEN /\ constructed' = constructed + 1
                  /\ _constellation_matcher' = [instance |-> constructed + 1]
             ELSE UNCHANGED <<_constellation_matcher, constructed>>
          /\ requests' = [requests EXCEPT ![r].at = "obtained",
                                          ![r].matcher = _constellation_matcher']
          /\ running' = Holder(r, "obtained")
    /\ UNCHANGED <<matcher_vars, held, db_vars, seg, aside_vars>>

\* the rest of the handler: app.py lines 264-327, 333-415
Respond ==
    /\ \E r \in RequestIds :
          /\ MayRun(r)
          /\ requests[r].at = "obtained"
          /\ requests' = [requests EXCEPT ![r].at = "done"]
          /\ running' = Holder(r, "done")
    /\ UNCHANGED <<_constellation_matcher, constructed>>
    /\ UNCHANGED <<matcher_vars, held, db_vars, seg, aside_vars>>

\* the response has been sent: the slot is free for another request
Retire ==
    /\ \E r \in RequestIds :
          /\ requests[r].at = "done"
          /\ requests' = [requests EXCEPT ![r] = NoRequest]
    /\ UNCHANGED <<_constellation_matcher, constructed, running>>
    /\ UNCHANGED <<matcher_vars, held, db_vars, seg, aside_vars>>

ServerNext ==
    \/ Arrive
    \/ CheckNone
    \/ ConstructOrReturn
    \/ Respond
    \/ Retire

ServerSpec == Init /\ [][ServerNext]_vars

\* the requests that have obtained the matcher
Obtained == {r \in RequestIds : requests[r].at \in {"obtained", "done"}}

\* C14: over any interleaving of search and draw requests the ConstellationMatcher is
\* constructed at most once, and every request obtains the same instance.
C14_LoadedOnce ==
    /\ constructed <= 1
    /\ \A r \in Obtained : requests[r].matcher = _constellation_matcher
    /\ \A r1, r2 \in Obtained : requests[r1].matcher = requests[r2].matcher

C14_Witness ==
    /\ constructed = 1
    /\ \E r1, r2, r3 \in RequestIds :
          /\ requests[r1].at = "done" /\ requests[r1].kind = "search"
          /\ requests[r2].at = "done" /\ requests[r2].kind = "draw"
          /\ requests[r3].at = "obtained" /\ ~requests[r3].is_none

(***************************************************************************)
(* A caller of get_constellation_names and get_constellation_by_name that  *)
(* keeps what it got and changes it.  A Python list is held by reference:  *)
(* `ref` is the catalog entry (1-based) whose list the held value's        *)
(* 'centroids' is, 0 for a value that shares nothing with the matcher.     *)
(***************************************************************************)
\* lines 208-215: a copy of the list of names
get_constellation_names == [names |-> CONSTELLATION_NAMES, ref |-> 0]

\* lines 217-238: the dict returned, its 'centroids' the catalog's own list
ReturnedInfo(info) ==
    IF info = None THEN None
    ELSE [index |-> info.index, name |-> info.name, num_stars |-> info.num_stars,
          ref |-> info.index + 1]

\* list operations a caller may apply to a list it was handed
ListOps == {"append", "pop", "clear"}

ApplyListOp(op, list, item) ==
    CASE op = "append" -> Append(list, item)
      [] op = "pop" -> SubSeq(list, 1, Len(list) - 1)
      [] op = "clear" -> <<>>

GetNamesCall ==
    /\ held = None
    /\ held' = get_constellation_names
    /\ UNCHANGED <<matcher_vars, server_vars, db_vars, seg, aside_vars>>

GetByNameCall ==
    /\ held = None
    /\ \E q \in Queries : held' = ReturnedInfo(get_constellation_by_name(q))
    /\ UNCHANGED <<matcher_vars, server_vars, db_vars, seg, aside_vars>>

\* the caller changes the list it holds: names.append(..), info['centroids'].pop(), ..
MutateReturned ==
    /\ held # None
    /\ \E op \in ListOps :
          IF "names" \in DOMAIN held
          THEN /\ op = "append" => Len(held.names) <= Len(CONSTELLATION_NAMES)
               /\ op = "pop" => held.names # <<>>
               /\ held' = [held EXCEPT !.names = ApplyListOp(op, @, <<"X">>)]
               /\ UNCHANGED constellation_centroids
          ELSE /\ op = "append" => Len(constellation_centroids[held.ref]) < MaxPatternLen
               /\ op = "pop" => constellation_centroids[held.ref] # <<>>
               /\ constellation_centroids' =
                     [constellation_centroids EXCEPT
                         ![held.ref] = ApplyListOp(op, @, <<9, 9>>)]
               /\ UNCHANGED held
    /\ UNCHANGED <<call_vars, server_vars, db_vars, seg, aside_vars>>

\* the caller lets go of the value
DropReturned ==
    /\ held # None
    /\ held' = None
    /\ UNCHANGED <<matcher_vars, server_vars, db_vars, seg, aside_vars>>

CallerNext ==
    \/ GetNamesCall
    \/ GetByNameCall
    \/ MutateReturned
    \/ DropReturned

CallerSpec == Init /\ [][CallerNext]_vars

\* C15: whatever a caller does to the values get_constellation_names and
\* get_constellation_by_name returned, the catalog keeps its per-entry point lists, one
\* per name, as loaded.
C15_CatalogImmutable ==
    /\ Len(constellation_centroids) = Len(CONSTELLATION_NAMES)
    /\ constellation_centroids = Catalog

(***************************************************************************)
(* space_objects.db, the file all three modules name as DB_PATH_DEFAULT.   *)
(* The table is "absent", "old" (it lacks one of the four bbox columns, as *)
(* the table `tools copy.py` creates) or "new" (it has them).  A row is    *)
(* its AUTOINCREMENT id and the object stored.                             *)
(***************************************************************************)
Detections == {"star", "galaxy", "cluster"}

\* what one run of the detector hands to save_objects_to_db
DetectedLists ==
    UNION {[1..n -> Detections] : n \in 0..MaxObjects}

Database == [table |-> db_table, rows |-> db_rows]

\* tools.py lines 122-191
tools_create_space_objects_table(db) ==
    IF db.table = "old" THEN [table |-> "new", rows |-> <<>>]
    ELSE [table |-> "new", rows |-> db.rows]

\* agent_tools.py lines 13-74: the missing columns are added to the table
agent_create_space_objects_table(db) == [table |-> "new", rows |-> db.rows]

\* `tools copy.py` lines 70-112: CREATE TABLE IF NOT EXISTS, without bbox columns
older_create_space_objects_table(db) ==
    IF db.table = "absent" THEN [table |-> "old", rows |-> <<>>] ELSE db

\* the INSERT of one row per object; `columns` is the schema the INSERT names, and the
\* statement fails, nothing being stored, on a table that is absent or lacks a column
InsertRows(db, objects, columns) ==
    IF db.table # columns THEN db
    ELSE [db EXCEPT !.rows =
             db.rows \o ToSeq([k \in 1..Len(objects) |->
                                  [id |-> Len(db.rows) + k, obj_type |-> objects[k]]],
                              Len(objects))]

\* tools.py lines 193-214, agent_tools.py lines 76-94
save_objects_to_db(db, objects) == InsertRows(db, objects, "new")

\* `tools copy.py` lines 114-131
older_save_objects_to_db(db, objects) == InsertRows(db, objects, "old")

\* the database after an operation
Becomes(db) ==
    /\ db_table' = db.table
    /\ db_rows' = db.rows
    /\ UNCHANGED <<matcher_vars, server_vars, held, seg, aside_vars>>

ToolsCreateTable ==
    \E db \in {tools_create_space_objects_table(Database)} : Becomes(db)

AgentCreateTable ==
    \E db \in {agent_create_space_objects_table(Database)} : Becomes(db)

\* save_objects_to_db of either module, called on its own
SaveObjects ==
    \E objects \in DetectedLists :
       /\ Len(db_rows) + Len(objects) <= MaxRows
       /\ Becomes(save_objects_to_db(Database, objects))

\* tools.py lines 216-247, and extract_boxes_from_image, lines 70-72
ToolsProcessAndSave ==
    \E objects \in DetectedLists :
       /\ Len(db_rows) + Len(objects) <= MaxRows
       /\ Becomes(save_objects_to_db(tools_create_space_objects_table(Database), objects))

\* agent_tools.py lines 96-107
AgentProcessAndSave ==
    \E objects \in DetectedLists :
       /\ Len(db_rows) + Len(objects) <= MaxRows
       /\ Becomes(save_objects_to_db(agent_create_space_objects_table(Database), objects))

\* `tools copy.py` lines 133-141: process_and_save_image of the older module
OlderProcessAndSave ==
    \E objects \in DetectedLists :
       /\ Len(db_rows) + Len(objects) <= MaxRows
       /\ Becomes(older_save_objects_to_db(older_create_space_objects_table(Database),
                                           objects))

DbNext ==
    \/ ToolsCreateTable
    \/ AgentCreateTable
    \/ SaveObjects
    \/ ToolsProcessAndSave
    \/ AgentProcessAndSave
    \/ OlderProcessAndSave

DbSpec == Init /\ [][DbNext]_vars

\* C16: no call of create_space_objects_table, save_objects_to_db,
\* process_and_save_image or extract_boxes_from_image deletes or changes a stored row:
\* the rows before the call are the first rows after it.
C16_AppendOnly ==
    [][/\ Len(db_rows') >= Len(db_rows)
       /\ SubSeq(db_rows', 1, Len(db_rows)) = db_rows]_vars

\* C17: in a successful response of either endpoint, total_points is the number of
\* points of the matched pattern, inliers_count is at most total_points, and
\* inliers_ratio is inliers_count / total_points.
C17_TotalPoints ==
    (pc = "done" /\ call.op \in {"search_endpoint", "draw_endpoint"} /\ response.success)
       => /\ response.total_points = Len(call.pattern)
          /\ response.inliers_count <= response.total_points
          /\ response.inliers_ratio.num * response.total_points
                = response.inliers_count * response.inliers_ratio.den

(***************************************************************************)
(* process_image of src/python/miquel/star_detection_tools.py.  An image   *)
(* is either uniform (every pixel the same gray level), and then the mask  *)
(* is computed as lines 20-89 compute it, or it has sources, and then it   *)
(* is given by the areas, in label order, of the components its separated  *)
(* mask has at line 92.  A size cutoff is the fraction num/den.            *)
(***************************************************************************)
\* the default of the parameter noise_threshold, line 8
NoiseThreshold == 120

\* adaptiveThreshold's constant C, line 55
AdaptiveC == 5

GrayLevels == {0, 100, 200}

PixelCounts == {16, 100}

AreaChoices == {1, 2, 3, 2000, 2500}

UniformImages == [kind : {"uniform"}, gray : GrayLevels, pixels : PixelCounts]

SourceImages ==
    [kind : {"sources"}, areas : UNION {[1..n -> AreaChoices] : n \in 0..MaxLabels}]

MinSizes == {1, 20}

MaxComponentsChoices == {0, 1, 2, 1000}

\* cv2.threshold(gray_img, nan, 255, THRESH_BINARY), line 89 after the mean of no pixel
\* at all, line 87: the threshold's integer part is the conversion of nan to int, which
\* the build decides; every pixel or no pixel passes
NanThresholdMasks == {0, 255}

MaxOf(areas) == CHOOSE a \in {areas[i] : i \in 1..Len(areas)} :
                   \A i \in 1..Len(areas) : areas[i] <= a

\* lines 20-89 on a uniform image: the value of every pixel of the mask; nan_mask is
\* the outcome of line 89 should its threshold be nan
UniformMask(image, automated, min_size, nan_mask) ==
    LET gray == image.gray
        background == gray
        foreground1 == gray - background
        foreground2 == gray - foreground1
        foreground == IF foreground2 < NoiseThreshold THEN gray ELSE foreground2
        mask0 == IF automated
                 THEN (IF foreground > foreground - AdaptiveC THEN 255 ELSE 0)
                 ELSE (IF foreground > NoiseThreshold THEN 255 ELSE 0)
        mask1 == IF gray < NoiseThreshold THEN 0 ELSE mask0
        min_size1 == IF automated /\ mask1 = 255 /\ image.pixels < min_size
                     THEN 1 ELSE min_size
    IN  IF min_size1 > 1 THEN mask1
        ELSE IF gray > 0 THEN (IF gray > gray * 5 THEN 255 ELSE 0)
        ELSE nan_mask

\* line 92: the areas of the components of the separated mask, in label order
ComponentAreas(image, automated, min_size, nan_mask) ==
    IF image.kind = "sources" THEN image.areas
    ELSE IF UniformMask(image, automated, min_size, nan_mask) = 255
    THEN <<image.pixels>>
    ELSE <<>>

\* lines 95-96: the cutoff in automated mode; otherwise the parameter
MinSize(stats, automated, min_size) ==
    IF automated
    THEN (IF Len(stats) > 0 THEN [num |-> MaxOf(stats), den |-> 1000]
          ELSE [num |-> 1, den |-> 1])
    ELSE [num |-> min_size, den |-> 1]

\* line 101, had the comparison been strict
ExceedsMinSize(area, cutoff) == area * cutoff.den > cutoff.num

\* line 101: stats[i, CC_STAT_AREA] >= min_size
MeetsMinSize(area, cutoff) == area * cutoff.den >= cutoff.num

\* the entries of a sequence at the indices of a set, in order
Select(seq, keep) ==
    LET RECURSIVE upto(_)
        upto(n) == IF n = 0 THEN <<>>
                   ELSE IF n \in keep THEN Append(upto(n - 1), seq[n])
                   ELSE upto(n - 1)
    IN  upto(Len(seq))

\* np.argsort(areas): the orders of the indices in which the areas do not decrease;
\* which one among equal areas is the sort's choice
Argsorts(areas) ==
    {p \in [1..Len(areas) -> 1..Len(areas)] :
        /\ \A i, j \in 1..Len(areas) : i # j => p[i] # p[j]
        /\ \A i \in 1..(Len(areas) - 1) : areas[p[i]] <= areas[p[i + 1]]}

\* order[-n:], the slice of line 116: the last n entries, and all of them for n = 0;
\* as the set of the labels it holds
LastSlice(order, n) ==
    LET len == Len(order)
        from == IF n = 0 THEN 1 ELSE IF n >= len THEN 1 ELSE len - n + 1
    IN  {order[i] : i \in from..len}

\* lines 114-122
CapComponents(large, max_components, order) ==
    IF Len(large) > max_components THEN LastSlice(order, max_components)
    ELSE 1..Len(large)

\* process_image, lines 7-125
process_image(image, automated, min_size, max_components) ==
    \E nan_mask \in NanThresholdMasks :
    \E stats \in {ComponentAreas(image, automated, min_size, nan_mask)} :
    \E cutoff \in {MinSize(stats, automated, min_size)} :
    \E retained \in {{i \in 1..Len(stats) : MeetsMinSize(stats[i], cutoff)}} :
    \E large \in {Select(stats, retained)} :
    \E order \in Argsorts(large) :
    \E kept \in {CapComponents(large, max_components, order)} :
       seg' = [image |-> image, automated |-> automated, min_size |-> min_size,
               max_components |-> max_components, stats |-> stats, cutoff |-> cutoff,
               retained |-> retained, large |-> large, kept |-> kept,
               out |-> Select(large, kept)]

ProcessImageCall ==
    /\ seg = None
    /\ \E image \in UniformImages \cup SourceImages, automated \in BOOLEAN,
          min_size \in MinSizes, max_components \in MaxComponentsChoices :
          process_image(image, automated, min_size, max_components)
    /\ UNCHANGED <<matcher_vars, server_vars, held, db_vars, aside_vars>>

\* the caller is done with the result
ProcessImageReturn ==
    /\ seg # None
    /\ seg' = None
    /\ UNCHANGED <<matcher_vars, server_vars, held, db_vars, aside_vars>>

SegNext ==
    \/ ProcessImageCall
    \/ ProcessImageReturn

SegSpec == Init /\ [][SegNext]_vars

\* C18: in automated mode a component is retained if and only if its area is at least
\* max(1, maxComponentArea / 1000), maxComponentArea the largest area after separation.
C18_AutomatedCutoff ==
    (seg # None /\ seg.automated /\ seg.stats # <<>>) =>
       /\ seg.retained =
             {i \in 1..Len(seg.stats) :
                 /\ seg.stats[i] >= 1
                 /\ seg.stats[i] * 1000 >= MaxOf(seg.stats)}
       /\ seg.large = Select(seg.stats, seg.retained)

C18_Witness ==
    /\ seg # None /\ seg.automated
    /\ \E i, j \in 1..Len(seg.stats) :
          /\ seg.stats[i] * 1000 = MaxOf(seg.stats) /\ seg.stats[i] > 1
          /\ i \in seg.retained
          /\ j \notin seg.retained

\* C19: process_image returns at most max_components components; when more than
\* max_components pass the size filter, exactly max_components are kept, none of them
\* smaller than a dropped one.
C19_Cap ==
    seg # None =>
       /\ Len(seg.out) <= seg.max_components
       /\ Len(seg.large) > seg.max_components =>
             /\ Len(seg.out) = seg.max_components
             /\ \A i \in seg.kept, j \in (1..Len(seg.large)) \ seg.kept :
                   seg.large[j] <= seg.large[i]

\* C20: on an all-black image process_image returns no component; on a uniformly gray
\* image in automated mode, at most one; with no component at line 92 the automated
\* cutoff is 1.
C20_NoSources ==
    (seg # None /\ seg.image.kind = "uniform") =>
       /\ seg.image.gray = 0 => seg.out = <<>>
       /\ seg.automated => Len(seg.out) <= 1
       /\ (seg.automated /\ seg.stats = <<>>) => seg.cutoff = [num |-> 1, den |-> 1]

(***************************************************************************)
(* find_constellation_matches with an environment that asks for the scan   *)
(* to stop.  The function takes no token, flag or callback (its parameters *)
(* are those of lines 351-362) and its loop, lines 387-411, tests nothing  *)
(* but the pattern's length: the request is a fact of the environment that *)
(* no line reads.                                                          *)
(***************************************************************************)
RequestCancel ==
    /\ pc \in {"scan", "returned"}
    /\ call.op = "find_all"
    /\ ~cancel_requested
    /\ cancel_requested' = TRUE
    /\ UNCHANGED <<matcher_vars, server_vars, held, db_vars, seg, strip, extracted>>

\* the request ends with the call it was made for
WithdrawCancel ==
    /\ pc = "idle"
    /\ cancel_requested
    /\ cancel_requested' = FALSE
    /\ UNCHANGED <<matcher_vars, server_vars, held, db_vars, seg, strip, extracted>>

CancelNext ==
    \/ FindAllCall
    \/ EvalHypothesis
    \/ FindAllStep
    \/ Reset
    \/ RequestCancel
    \/ WithdrawCancel

CancelSpec == Init /\ [][CancelNext]_vars

\* C21: between two per-pattern searches of find_constellation_matches a request to
\* cancel is honoured: with the request made, the step that follows the return of one
\* pattern's search starts no search of another pattern but ends the scan.
C21_CancelObserved ==
    [][(cancel_requested /\ pc = "returned" /\ call.op = "find_all") => pc' = "done"]_vars

(***************************************************************************)
(* ransac_match: which hypotheses reach the estimator                      *)
(***************************************************************************)
\* C22: within the grid scan the robust fit is attempted for a (scale, angle) hypothesis
\* only if the correspondences that survive the distance filter number at least 3 and at
\* least min_inliers; any other hypothesis is skipped, calls no estimator and leaves the
\* best match alone, also when min_inliers is below 3.
C22_FitNeedsThree ==
    /\ [][(pc = "scan" /\ last' # None)
             => /\ (fits' = fits + 1)
                      = (last'.survivors >= 3 /\ last'.survivors >= call.cfg.min_inliers)
                /\ (fits' = fits)
                      = (last'.survivors < 3 \/ last'.survivors < call.cfg.min_inliers)
                /\ (fits' = fits) => (best_match' = best_match /\ last'.outcome = "skipped")
          ]_vars
    /\ [](last # None =>
             (last.outcome = "skipped")
                 = (last.survivors < 3 \/ last.survivors < call.cfg.min_inliers))

\* with min_inliers = 2, a hypothesis with exactly two surviving correspondences has been
\* skipped
C22_Witness ==
    /\ last # None /\ call # None /\ call.cfg.min_inliers = 2
    /\ last.survivors = 2 /\ last.outcome = "skipped"

(***************************************************************************)
(* ransac_match: the distance filter                                       *)
(***************************************************************************)
\* lines 283-300: matches_distances of hypothesis (i-th scale, angle), each squared and in
\* units of 1/den^2
MatchesDistances2(pattern_centroids, background_centroids, cfg, i, angle) ==
    LET den == ScaleDen(cfg.scale_steps)
        num == ScaleNum(cfg.scale_range[1], cfg.scale_range[2], cfg.scale_steps, i)
        np == Len(pattern_centroids)
        transformed_pattern ==
            ToSeq([k \in 1..np |->
                      Rotate(<<pattern_centroids[k][1] * num, pattern_centroids[k][2] * num>>,
                             angle)], np)
        background ==
            ToSeq([j \in 1..Len(background_centroids) |->
                      <<background_centroids[j][1] * den, background_centroids[j][2] * den>>],
                  Len(background_centroids))
    IN  ToSeq([k \in 1..np |->
                  Dist2(transformed_pattern[k],
                        background[ArgMin(transformed_pattern[k], background)])], np)

\* C23: a nearest-neighbour correspondence is dropped if and only if its distance exceeds
\* the threshold, so the survivors of a hypothesis are exactly the pattern points whose
\* nearest background point lies at a distance less than or equal to the threshold.
C23_DropIffExceeds ==
    [][(pc = "scan" /\ evaluated' = evaluated + 1 /\ last' # None)
          => LET cfg == call.cfg
                 d == MatchesDistances2(call.pattern, call.background, cfg, si,
                                        Angles(cfg.rotation_step)[ai])
                 limit == Sq(cfg.threshold * ScaleDen(cfg.scale_steps))
             IN  last'.survivors = Cardinality({k \in 1..Len(d) : d[k] <= limit})]_vars

(***************************************************************************)
(* ransac_match: the indices a match reports                               *)
(***************************************************************************)
\* the pattern point p as the hypothesis of match m places it, and the background, both in
\* units of 1/m.tested_scale.den
PlacedBy(m, p) ==
    Rotate(<<p[1] * m.tested_scale.num, p[2] * m.tested_scale.num>>, m.rotation_angle)

ScaledBackground(m, background_centroids) ==
    ToSeq([j \in 1..Len(background_centroids) |->
              <<background_centroids[j][1] * m.tested_scale.den,
                background_centroids[j][2] * m.tested_scale.den>>],
          Len(background_centroids))

\* C24: in every returned match matched_indices has exactly inliers_count entries, each an
\* index i with 0 <= i < len(background_centroids), and they are listed in the order of
\* the pattern points: the k-th entry is the nearest background neighbour of the k-th
\* inlier pattern point under the winning hypothesis.
C24_MatchedIndices ==
    (pc = "returned" /\ match # None)
        => /\ Len(match.matched_indices) = match.inliers_count
           /\ Len(best_points) = match.inliers_count
           /\ \A k \in 1..Len(match.matched_indices) :
                  /\ match.matched_indices[k] \in 0..(Len(call.background) - 1)
                  /\ best_points[k] \in 1..Len(call.pattern)
                  /\ k > 1 => best_points[k - 1] < best_points[k]
                  /\ match.matched_indices[k] + 1
                        = ArgMin(PlacedBy(match, call.pattern[best_points[k]]),
                                 ScaledBackground(match, call.background))

\* a match has been returned whose inliers are not the whole pattern and whose indices are
\* not the pattern's own positions
C24_Witness ==
    /\ pc = "returned" /\ match # None
    /\ match.inliers_count < Len(call.pattern)
    /\ \E k \in 1..Len(match.matched_indices) : match.matched_indices[k] # best_points[k] - 1
    /\ \E k \in 1..Len(best_points) : best_points[k] # k

(***************************************************************************)
(* process_image of src/python/miquel/star_detection_tools.py on an image  *)
(* of one row, pixel by pixel.  The image is given by its runs of equal    *)
(* gray level; a mask is the set of the positions at which it is 255.  The *)
(* weights of the library's two smoothers (GaussianBlur, and the Gaussian  *)
(* mean of adaptiveThreshold) are not in the source: a kernel of size 1    *)
(* leaves the row as it is, and a wider one gives a uniform row at one of  *)
(* the least, the mean and the greatest level of the row it smooths.       *)
(***************************************************************************)
MaxRun == 20

RowLevels == {0, 1, 100, 200}

RunLengths == {1, 5, MaxRun}

\* up to three runs, neighbours of different levels
RowImages ==
    {image \in UNION {[1..n -> [gray : RowLevels, len : RunLengths]] : n \in 1..3} :
        \A i \in 1..(Len(image) - 1) : image[i].gray # image[i + 1].gray}

GaussianBlurChoices == {1, 25}

SeparationThresholds == {3, 4}

RowMinSizes == {1, 15}

RowMaxComponents == {1, 1000}

\* line 21: the gray level of every pixel, in order
RECURSIVE Pixels(_)
Pixels(image) ==
    IF image = <<>> THEN <<>>
    ELSE LET r == image[Len(image)]
         IN  Pixels(SubSeq(image, 1, Len(image) - 1)) \o ToSeq([k \in 1..r.len |-> r.gray], r.len)

MinOf(s) == CHOOSE a \in {s[i] : i \in 1..Len(s)} : \A i \in 1..Len(s) : a <= s[i]

\* what a Gaussian kernel of size ksize makes of a row
Smoothed(s, ksize) ==
    IF ksize = 1 THEN {s}
    ELSE {ToSeq([k \in 1..Len(s) |-> v], Len(s)) :
             v \in {MinOf(s), SumSeq(s) \div Len(s), MaxOf(s)}}

\* lines 23-24 and 31: the kernel's size
KernelSize(gaussian_blur, automated, height, width) ==
    LET least == IF height < width THEN height ELSE width
        tenth == least \div 10
        auto == IF tenth % 2 = 1 THEN tenth ELSE tenth + 1
        g == IF automated THEN (IF auto < 25 THEN auto ELSE 25) ELSE gaussian_blur
    IN  IF g % 2 = 1 THEN g ELSE g + 1

\* uint8 arithmetic that wraps around, as numpy's
SubtractWrapping(a, b) == (a - b) % 256

\* cv2.subtract on uint8: the difference saturates
Subtract(a, b) ==
    IF a - b < 0 THEN 0 ELSE IF a - b > 255 THEN 255 ELSE a - b

\* lines 35-36
Foreground(gray_img, background) ==
    ToSeq([k \in 1..Len(gray_img) |->
              Subtract(gray_img[k], Subtract(gray_img[k], background[k]))], Len(gray_img))

\* lines 39-40
SafeForeground(foreground, gray_img) ==
    IF MaxOf(foreground) < NoiseThreshold THEN gray_img ELSE foreground

\* lines 49-55: above the neighbourhood's mean less C
AdaptiveMasks(foreground) ==
    {{k \in 1..Len(foreground) : foreground[k] > mean[k] - AdaptiveC} :
        mean \in Smoothed(foreground, 51)}

\* line 59
ThresholdMask(foreground) ==
    {k \in 1..Len(foreground) : foreground[k] > NoiseThreshold}

KeepDark(mask, gray_img) == mask

\* line 63: mask[gray_img < noise_threshold] = 0
ZeroDark(mask, gray_img) == {k \in mask : ~(gray_img[k] < NoiseThreshold)}

RECURSIVE Sorted(_)
Sorted(S) ==
    IF S = {} THEN <<>>
    ELSE LET m == CHOOSE x \in S : \A y \in S : x <= y
         IN  <<m>> \o Sorted(S \ {m})

\* cv2.connectedComponentsWithStats on one row: the runs of the mask, from the left
Components(mask) ==
    LET starts == Sorted({x \in mask : (x - 1) \notin mask})
    IN  ToSeq([i \in 1..Len(starts) |->
                  {x \in mask : x >= starts[i] /\ \A y \in starts[i]..x : y \in mask}],
              Len(starts))

Areas(components) ==
    ToSeq([i \in 1..Len(components) |-> Cardinality(components[i])], Len(components))

\* lines 74-76
SafeMinSize(areas, automated, min_size) ==
    IF automated /\ areas # <<>> /\ MinOf(areas) < min_size THEN 1 ELSE min_size

\* int(np.sqrt(n))
IntSqrt(n) == CHOOSE r \in 0..n : r * r <= n /\ n < (r + 1) * (r + 1)

\* lines 78-80; otherwise the parameter
SeparationThreshold(automated, separation_threshold, min_size) ==
    IF automated
    THEN (IF IntSqrt(min_size) < 3 THEN 3 ELSE IntSqrt(min_size))
    ELSE separation_threshold

\* lines 83-84: cv2.erode with the ksize x ksize ellipse, whose middle row is full and
\* whose anchor is at ksize // 2; beyond the border nothing erodes
Erode(mask, ksize, width) ==
    {x \in mask : \A d \in (0 - (ksize \div 2))..(ksize - 1 - (ksize \div 2)) :
                     (x + d) \in 1..width => (x + d) \in mask}

\* lines 87-89: the pixels brighter than 5 times the mean of the pixels that are not
\* black; nan_mask is the outcome should there be none
Rebinarize(gray_img, nan_mask) ==
    LET lit == {k \in 1..Len(gray_img) : gray_img[k] > 0}
        total == SumSeq(gray_img)
    IN  IF lit = {} THEN (IF nan_mask = 255 THEN 1..Len(gray_img) ELSE {})
        ELSE {k \in 1..Len(gray_img) : gray_img[k] * Cardinality(lit) > 5 * total}

\* the members of a sequence of sets at the indices of a sequence, united
UnionAt(components, indices) ==
    UNION {components[indices[i]] : i \in 1..Len(indices)}

\* process_image, lines 7-125, on a row
ProcessRow(image, automated, adaptative_filtering, gaussian_blur, separation_threshold, min_size, max_components) ==
    \E gray_img \in {Pixels(image)} :
    \E background \in Smoothed(gray_img, KernelSize(gaussian_blur, automated, 1,
                                                    Len(gray_img))) :
    \E foreground \in {Foreground(gray_img, background)} :
    \E safe \in {SafeForeground(foreground, gray_img)} :
    \E mask0 \in (IF automated \/ adaptative_filtering THEN AdaptiveMasks(safe)
                  ELSE {ThresholdMask(safe)}) :
    \E mask1 \in {ZeroDark(mask0, gray_img)} :
    \E min_size1 \in {SafeMinSize(Areas(Components(mask1)), automated, min_size)} :
    \E ksize \in {SeparationThreshold(automated, separation_threshold, min_size1)} :
    \E nan_mask \in (IF min_size1 > 1 \/ \E k \in 1..Len(gray_img) : gray_img[k] > 0
                     THEN {0} ELSE NanThresholdMasks) :
    \E mask \in {IF min_size1 > 1 THEN Erode(mask1, ksize, Len(gray_img))
                 ELSE Rebinarize(gray_img, nan_mask)} :
    \E components \in {Components(mask)} :
    \E stats \in {Areas(components)} :
    \E cutoff \in {MinSize(stats, automated, min_size1)} :
    \E retained \in {Sorted({i \in 1..Len(stats) : MeetsMinSize(stats[i], cutoff)})} :
    \E large \in {ToSeq([i \in 1..Len(retained) |-> stats[retained[i]]], Len(retained))} :
    \E order \in Argsorts(large) :
    \E kept \in {Sorted(CapComponents(large, max_components, order))} :
       strip' = [image |-> image, automated |-> automated,
               adaptative_filtering |-> adaptative_filtering,
               gaussian_blur |-> gaussian_blur,
               separation_threshold |-> separation_threshold,
               min_size |-> min_size, max_components |-> max_components,
               pixels |-> {<<gray_img[k], background[k], foreground[k]>> :
                              k \in 1..Len(gray_img)},
               mask_before |-> mask1, min_size_after |-> min_size1,
               ksize |-> ksize, eroded |-> (min_size1 > 1), mask |-> mask,
               large_mask |->
                   UnionAt(components,
                           ToSeq([i \in 1..Len(kept) |-> retained[kept[i]]], Len(kept)))]

\* in automated mode the parameters the mode overrides are left at their defaults
ProcessRowCall ==
    /\ strip = None
    /\ \E image \in RowImages, automated \in BOOLEAN, adaptative_filtering \in BOOLEAN,
          gaussian_blur \in GaussianBlurChoices,
          separation_threshold \in SeparationThresholds,
          min_size \in RowMinSizes, max_components \in RowMaxComponents :
          /\ automated => (~adaptative_filtering /\ gaussian_blur = 25
                             /\ separation_threshold = 3)
          /\ ProcessRow(image, automated, adaptative_filtering, gaussian_blur,
                        separation_threshold, min_size, max_components)
    /\ UNCHANGED <<matcher_vars, server_vars, held, db_vars, seg, cancel_requested,
                   extracted>>

\* the caller is done with the result
ProcessRowReturn ==
    /\ strip # None
    /\ strip' = None
    /\ UNCHANGED <<matcher_vars, server_vars, held, db_vars, seg, cancel_requested,
                   extracted>>

RowNext ==
    \/ ProcessRowCall
    \/ ProcessRowReturn

RowSpec == Init /\ [][RowNext]_vars

\* C25: the mask is eroded if and only if the min_size in effect is above 1, with a
\* kernel of the configured separation_threshold in manual mode and of size
\* max(3, round(sqrt(min_size))) in automated mode; with min_size at most 1 the mask is
\* the raw gray image binarized at 5 times its mean brightness over the nonzero pixels.
C25_Separation ==
    strip # None =>
       LET gray_img == Pixels(strip.image)
           m == strip.min_size_after
           rounded == CHOOSE r \in 0..m : Sq(2 * r - 1) <= 4 * m /\ 4 * m < Sq(2 * r + 1)
           size == IF strip.automated THEN (IF rounded < 3 THEN 3 ELSE rounded)
                   ELSE strip.separation_threshold
           lit == {k \in 1..Len(gray_img) : gray_img[k] > 0}
       IN  /\ strip.eroded = (m > 1)
           /\ m > 1 => /\ strip.ksize = size
                       /\ strip.mask = Erode(strip.mask_before, size, Len(gray_img))
           /\ (m <= 1 /\ lit # {}) =>
                 strip.mask = {k \in 1..Len(gray_img) :
                                  gray_img[k] * Cardinality(lit) > 5 * SumSeq(gray_img)}

C28_NotReducible ==
    /\ strip # None =>
          \A p \in strip.pixels :
             /\ p[3] \in 0..255
             /\ p[3] = Subtract(p[1], Subtract(p[1], p[2]))
    /\ \E g, b \in 0..255 :
          Subtract(g, Subtract(g, b)) # (IF g < b THEN g ELSE b)
    /\ \E g, b \in 0..255 : Subtract(g, Subtract(g, b)) # Subtract(g, b)

\* C28, amended: the foreground of lines 35-36 is clamp(gray - clamp(gray - background))
\* with values in 0..255; at every pixel it equals min(gray, background), and at some
\* pixels it differs from clamp(gray - background).
C28_ForegroundIsMin ==
    LET clamp(x) == IF x < 0 THEN 0 ELSE IF x > 255 THEN 255 ELSE x
    IN  /\ strip # None =>
              \A p \in strip.pixels :
                 /\ p[3] \in 0..255
                 /\ p[3] = clamp(p[1] - clamp(p[1] - p[2]))
                 /\ p[3] = (IF p[1] < p[2] THEN p[1] ELSE p[2])
        /\ \E g, b \in 0..255 : clamp(g - clamp(g - b)) # clamp(g - b)

\* an image with a pixel darker than its background, one brighter and one level with it
C28_Witness ==
    /\ strip # None
    /\ \E p, q \in strip.pixels :
          /\ p[1] < p[2] /\ p[3] = p[1]
          /\ q[1] > q[2] /\ q[2] > 0 /\ q[3] = q[2] /\ q[3] # q[1] - q[2]

(***************************************************************************)
(* extract_properties_fast, as src/python/miquel/star_detection_tools.py   *)
(* and src/python/no_nonsense_function.py define it.  stats holds the      *)
(* bounding boxes of the components, the background's row left out.        *)
(***************************************************************************)
MaxSide == 6

MaxComponents == 2

Boxes == [width : 1..MaxSide, height : 1..MaxSide]

StatsChoices == UNION {[1..n -> Boxes] : n \in 0..MaxComponents}

ExtractModules == {"miquel.star_detection_tools", "no_nonsense_function"}

\* miquel/star_detection_tools.py, lines 221-231: the greater of width / height and
\* height / width against 1.2
ObjType(box, cluster) ==
    LET greater == IF box.width > box.height THEN box.width ELSE box.height
        lesser == IF box.width > box.height THEN box.height ELSE box.width
    IN  IF cluster THEN "cluster"
        ELSE IF 5 * greater > 6 * lesser THEN "galaxy"
        ELSE "star"

\* no_nonsense_function.py, lines 136-141: width / height against 1.2
ObjTypeNoNonsense(box) ==
    IF 5 * box.width > 6 * box.height THEN "cluster" ELSE "star"

\* lines 233-249 (no_nonsense_function.py, lines 143-159): one object per index
extract_properties_fast(module, stats, cluster) ==
    ToSeq([i \in 1..Len(stats) |->
              [obj_type |-> IF module = "no_nonsense_function"
                            THEN ObjTypeNoNonsense(stats[i])
                            ELSE ObjType(stats[i], cluster),
               bbox_width |-> stats[i].width, bbox_height |-> stats[i].height]],
          Len(stats))

\* no_nonsense_function's definition has no parameter cluster
ExtractCall ==
    /\ extracted = None
    /\ \E module \in ExtractModules, stats \in StatsChoices, cluster \in BOOLEAN :
          /\ module = "no_nonsense_function" => ~cluster
          /\ extracted' = [module |-> module, stats |-> stats, cluster |-> cluster,
                            objects |-> extract_properties_fast(module, stats, cluster)]
    /\ UNCHANGED <<matcher_vars, server_vars, held, db_vars, seg, cancel_requested, strip>>

\* the caller is done with the objects
ExtractReturn ==
    /\ extracted # None
    /\ extracted' = None
    /\ UNCHANGED <<matcher_vars, server_vars, held, db_vars, seg, cancel_requested, strip>>

ExtractNext ==
    \/ ExtractCall
    \/ ExtractReturn

ExtractSpec == Init /\ [][ExtractNext]_vars

\* C26: extract_properties_fast emits exactly one object per component other than the
\* background, with obj_type one of star, galaxy, cluster: cluster mode gives "cluster"
\* for every component; otherwise a component whose bounding box has sides w, h is a
\* "galaxy" if max(w/h, h/w) > 1.2 and a "star" if not, a ratio of exactly 1.2 included.
C26_Classification ==
    extracted # None =>
       /\ Len(extracted.objects) = Len(extracted.stats)
       /\ \A i \in 1..Len(extracted.objects) :
             LET w == extracted.stats[i].width
                 h == extracted.stats[i].height
                 t == extracted.objects[i].obj_type
             IN  /\ t \in {"star", "galaxy", "cluster"}
                 /\ extracted.cluster => t = "cluster"
                 /\ ~extracted.cluster =>
                       t = (IF 5 * w > 6 * h \/ 5 * h > 6 * w THEN "galaxy" ELSE "star")

(***************************************************************************)
(* interactive_draw: the keys of the sketch loop                           *)
(***************************************************************************)
\* C29: ESC cancels the drawing: whatever was placed before, the drawing returned after
\* ESC is empty and no pattern search is run on it; C empties the point list and the
\* selection while the loop goes on; only D returns the points placed since the last
\* clear.
C29_EscapeCancels ==
    /\ [](SketchReturned =>
             LET drawn == IF draw_module = "tests" THEN drawn_centroids[1]
                          ELSE drawn_centroids
             IN  /\ last_key = "ESC" =>
                       /\ drawn = <<>>
                       /\ evaluated = 0 /\ match = None
                       /\ \A i \in 1..Len(log) :
                             log[i] # "Searching for match in detected objects"
                 /\ last_key = "d" => drawn = points)
    /\ [][(pc = "drawing" /\ pc' = "drawing" /\ Len(points') < Len(points))
             => (points' = <<>> /\ selected_point' = None)]_vars

(***************************************************************************)
(* ransac_match: the scan runs to its end.  The loops of lines 283 and 287 *)
(* are for loops over finite sequences and each iteration returns (the     *)
(* estimator is bounded by max_iters): a scan under way takes its next     *)
(* step.  EvalHypothesis is enabled exactly when pc = "scan", and its weak *)
(* fairness, WF_vars(EvalHypothesis), is written out with that.            *)
(***************************************************************************)
ScanNext ==
    \/ RansacMatchCall
    \/ EvalHypothesis
    \/ Finish
    \/ Reset

\* direct calls of ransac_match alone
ScanSpec == Init /\ [][ScanNext]_vars

ScanFairness == []<>(pc # "scan") \/ []<><<EvalHypothesis>>_vars

ScanLiveSpec == Init /\ [][ScanNext]_vars /\ ScanFairness

\* C30: for rotation_step >= 1 and scale_steps >= 0 ransac_match terminates: the scan
\* evaluates each (scale, angle) hypothesis exactly once, scale_steps scales times
\* ceil(360 / rotation_step) angles, the scales in the outer loop and the angles in the
\* inner one; meanwhile the best inlier count never decreases and is the inliers_count
\* of the best match held (0 with none held); then ransac_match returns.
C30_ScanTerminates ==
    /\ [](pc = "scan" =>
             LET n == (360 + call.cfg.rotation_step - 1) \div call.cfg.rotation_step
             IN  /\ si \in 1..call.cfg.scale_steps /\ ai \in 1..n
                 /\ evaluated = (si - 1) * n + (ai - 1))
    /\ []((pc = "returned" /\ Len(call.pattern) >= 3 /\ Len(call.background) >= 3) =>
             evaluated = call.cfg.scale_steps
                            * ((360 + call.cfg.rotation_step - 1) \div call.cfg.rotation_step))
    /\ []((pc = "scan" \/ (pc = "returned" /\ Len(call.pattern) >= 3
                                             /\ Len(call.background) >= 3)) =>
             /\ best_match = None => best_inliers = 0
             /\ best_match # None => best_inliers = best_match.inliers_count)
    /\ [][pc = "scan" => /\ evaluated' = evaluated + 1
                         /\ best_inliers' >= best_inliers
                         /\ pc' \in {"scan", "returned"}]_vars
    /\ (pc = "scan") ~> (pc = "returned")

\* a scan of two scales and the two angles 0 and 270 has returned with a match
C30_Witness ==
    /\ pc = "returned" /\ call # None /\ call.cfg.rotation_step = 270
    /\ call.cfg.scale_steps >= 2
    /\ evaluated = 2 * call.cfg.scale_steps
    /\ best_match # None /\ best_inliers >= 3

====
